---- MODULE Spec2Model ----
(***************************************************************************)
(* The chat orchestrator of src/app/api/ai/chat/route.ts: the per-user     *)
(* conversation memory, the preference extractor, the query classifier,    *)
(* the proactive search planner, the relevance scorer and the POST handler *)
(* that ties them together.  A request is a process that runs from one     *)
(* await to the next in one atomic step; requests interleave at the awaits.*)
(*                                                                         *)
(* Beside it: the site crawler of the knowledge routes (one crawl state    *)
(* shared by the start route, the control route and the chains of          *)
(* processCrawlQueue callbacks), the vote route of a post and the feedback *)
(* route of a knowledge entry with the document methods it calls.          *)
(*                                                                         *)
(* Text is the sequence of the pieces split(' ') gives.  The tables below  *)
(* give, for the tokens the model uses, what the string primitives of the  *)
(* code compute on them (toLowerCase, length, includes).  Message tokens   *)
(* are alphanumeric words, so a \b(...)\b regular expression matches       *)
(* exactly when a token equals one of its alternatives.                    *)
(***************************************************************************)
EXTENDS Integers, Sequences, FiniteSets, TLC

----------------------------------------------------------------------------
(* String primitives *)

\* toLowerCase, for the tokens that have an upper-case letter
LowerTable ==
  "I" :> "i" @@ "My" :> "my" @@ "eBay" :> "ebay" @@ "CB750" :> "cb750" @@ "Civic" :> "civic" @@
  "Honda" :> "honda" @@ "Parts" :> "parts" @@ "Amazon" :> "amazon" @@ "Search" :> "search" @@ "Toyota" :> "toyota" @@
  "Catalog" :> "catalog" @@ "RockAuto" :> "rockauto" @@ "RockAuto's" :> "rockauto's"
\* the number of characters of a token; "" is the empty piece that split(' ')
\* yields between two adjacent spaces and at a leading or trailing space
TokLen(t) ==
  CASE t = "" -> 0
    [] t \in {"-", "I", "a", "i"} -> 1
    [] t \in {"My", "m3", "me", "my", "on"} -> 2
    [] t \in {"and", "bmw", "cam", "for", "new", "pad", "set", "the", "try"} -> 3
    [] t \in {"1975", "1980", "2015", "2035", "cost", "eBay", "ebay", "give", "have", "tips"} -> 4
    [] t \in {"CB750", "Civic", "Honda", "Parts", "brake", "cb750", "chain", "check", "civic", "forum", "guide", "honda", "needs", "parts"} -> 5
    [] t \in {"Amazon", "Search", "Toyota", "amazon", "common", "expert", "manual", "search", "thread", "toyota"} -> 6
    [] t \in {"Catalog", "catalog", "general"} -> 7
    [] t \in {"RockAuto", "beginner", "listing:", "problems", "rockauto", "schedule"} -> 8
    [] t \in {"tensioner"} -> 9
    [] t \in {"RockAuto's", "discussion", "rockauto's"} -> 10
    [] t \in {"maintenance", "replacement"} -> 11
    [] t \in {"installation"} -> 12
    [] t \in {"comprehensive"} -> 13
    [] t \in {"troubleshooting"} -> 15
\* <<s, t>>: s is a proper substring of t, over the lower-case tokens
SubstringPairs ==
  {<<"a", "and">>, <<"a", "cam">>, <<"a", "pad">>, <<"a", "ebay">>,
   <<"a", "have">>, <<"a", "brake">>, <<"a", "chain">>, <<"a", "honda">>,
   <<"a", "parts">>, <<"a", "amazon">>, <<"a", "manual">>, <<"a", "search">>,
   <<"a", "thread">>, <<"a", "toyota">>, <<"a", "catalog">>, <<"a", "general">>,
   <<"a", "rockauto">>, <<"a", "rockauto's">>, <<"a", "maintenance">>, <<"a", "replacement">>,
   <<"a", "installation">>, <<"i", "give">>, <<"i", "tips">>, <<"i", "chain">>,
   <<"i", "civic">>, <<"i", "guide">>, <<"i", "beginner">>, <<"i", "listing:">>,
   <<"i", "tensioner">>, <<"i", "discussion">>, <<"i", "maintenance">>, <<"i", "installation">>,
   <<"i", "comprehensive">>, <<"i", "troubleshooting">>, <<"me", "replacement">>, <<"on", "honda">>,
   <<"on", "amazon">>, <<"on", "common">>, <<"on", "tensioner">>, <<"on", "discussion">>,
   <<"on", "installation">>, <<"for", "forum">>, <<"rockauto", "rockauto's">>}

\* 4-digit tokens and the value parseInt gives them
ParseIntTable ==
  "1975" :> 1975 @@ "1980" :> 1980 @@ "2015" :> 2015 @@ "2035" :> 2035

Lower(t) == IF t \in DOMAIN LowerTable THEN LowerTable[t] ELSE t

toLowerCase(s) == [i \in 1..Len(s) |-> Lower(s[i])]

RECURSIVE SumLen(_)
SumLen(s) == IF s = <<>> THEN 0 ELSE TokLen(Head(s)) + SumLen(Tail(s))

\* s.length: the characters of the tokens plus the single spaces between them
length(s) == IF s = <<>> THEN 0 ELSE SumLen(s) + Len(s) - 1

\* s.split(' ').length
splitLength(s) == IF s = <<>> THEN 1 ELSE Len(s)

\* text.includes(term), term without a space: case-sensitive substring test
\* (the empty string is a substring of every text)
includes(text, term) ==
  \/ term = ""
  \/ \E i \in 1..Len(text) : text[i] = term \/ <<term, text[i]>> \in SubstringPairs

\* text.includes(phrase), phrase of several words
includesPhrase(text, phrase) ==
  \E i \in 1..(Len(text) - Len(phrase) + 1) :
     SubSeq(text, i, i + Len(phrase) - 1) = phrase

\* text.match(/\b(w1|w2|...)\b/gi): the matched tokens, in order
matchAll(text, words) == SelectSeq(text, LAMBDA t : Lower(t) \in words)

\* /\b(w1|w2|...)\b/i.test(text)
testWords(text, words) == \E i \in 1..Len(text) : Lower(text[i]) \in words

IsDigits4(t) == t \in DOMAIN ParseIntTable

\* /\b(19|20)\d{2}\b/.test(text)
testYearLike(text) ==
  \E i \in 1..Len(text) :
     IsDigits4(text[i]) /\ ParseIntTable[text[i]] >= 1900 /\ ParseIntTable[text[i]] <= 2099

Min(a, b) == IF a < b THEN a ELSE b

\* s.slice(0, n)
sliceFirst(s, n) == SubSeq(s, 1, Min(n, Len(s)))

\* s.slice(-n)
sliceLast(s, n) == IF Len(s) <= n THEN s ELSE SubSeq(s, Len(s) - n + 1, Len(s))

RECURSIVE SetMax(_)
SetMax(S) ==
  LET x == CHOOSE y \in S : TRUE
  IN IF S = {x} THEN x ELSE LET m == SetMax(S \ {x}) IN IF x > m THEN x ELSE m

----------------------------------------------------------------------------
(* Program constants *)

VagueLen == 10
VaguePhraseLen == 50
SpecificLen == 100
MinRelevance == 15
TopResults == 8
ContextWindow == 10
ProactiveLimit == 2
FollowUpMinMessages == 2
FallbackVagueLen == 8
FallbackPhraseLen == 30
FallbackMinWords == 3
FallbackLongLen == 50

----------------------------------------------------------------------------
(* Preference extractor *)

Makes ==
  {"honda", "yamaha", "kawasaki", "suzuki", "bmw", "harley", "ducati", "ford",
   "toyota", "mercedes", "audi", "nissan", "mazda", "subaru", "volkswagen", "vw",
   "lexus", "acura", "infiniti", "cadillac", "chevrolet", "chevy", "gmc", "dodge",
   "ram", "jeep", "chrysler"}

\* the one-token alternatives of modelRegex ("3 series" and "5 series" need
\* the token "series", which no modelled text has)
Models ==
  {"civic", "accord", "camry", "corolla", "f150", "f-150", "mustang", "focus",
   "fiesta", "explorer", "cb750", "cb650", "cb500", "cbr", "ninja", "gsxr", "r6",
   "r1", "m3", "m5", "x3", "x5", "e46", "e90", "e92", "prius", "rav4",
   "highlander", "pilot", "crv", "cr-v", "hrv", "hr-v", "wrx", "sti", "legacy",
   "outback", "forester", "impreza", "brz"}

EmptyPreferences ==
  [vehicleMake |-> "", vehicleModel |-> "", vehicleYear |-> 0,
   experienceLevel |-> "intermediate", interests |-> <<>>]

RECURSIVE JoinContents(_)
\* messages.map(m => m.content).join(' ')
JoinContents(messages) ==
  IF messages = <<>> THEN <<>>
  ELSE Head(messages).content \o JoinContents(Tail(messages))

\* the year pattern without its 19[89]\d alternative
YearMatchesThisCentury(text) ==
  {ParseIntTable[text[i]] : i \in {j \in 1..Len(text) :
      IsDigits4(text[j]) /\ ParseIntTable[text[j]] >= 2000 /\ ParseIntTable[text[j]] <= 2029}}

\* yearRegex /\b(19[89]\d|20[0-2]\d)\b/g, the matches parsed
YearMatches(text) ==
  {ParseIntTable[text[i]] : i \in {j \in 1..Len(text) :
      IsDigits4(text[j]) /\ ParseIntTable[text[j]] >= 1980 /\ ParseIntTable[text[j]] <= 2029}}

Interests(allText) ==
  (IF testWords(allText, {"brake", "brakes"}) THEN <<"brakes">> ELSE <<>>) \o
  (IF testWords(allText, {"engine", "motor", "swap"}) THEN <<"engine">> ELSE <<>>) \o
  (IF testWords(allText, {"suspension", "shock", "strut"}) THEN <<"suspension">> ELSE <<>>) \o
  (IF testWords(allText, {"electrical", "wiring", "lights"}) THEN <<"electrical">> ELSE <<>>) \o
  (IF testWords(allText, {"exhaust", "muffler", "pipe"}) THEN <<"exhaust">> ELSE <<>>)

\* the two tests as independent ifs, the expert one last
ExperienceLevelExpertLast(allText) ==
  IF \/ includes(allText, "expert") \/ includes(allText, "professional")
     \/ includes(allText, "mechanic")
     \/ includesPhrase(allText, <<"years", "of", "experience">>)
  THEN "expert"
  ELSE IF \/ includes(allText, "beginner") \/ includesPhrase(allText, <<"new", "to">>)
          \/ includesPhrase(allText, <<"first", "time">>)
          \/ includesPhrase(allText, <<"never", "done">>)
       THEN "beginner"
       ELSE "intermediate"

ExperienceLevel(allText) ==
  IF \/ includes(allText, "beginner") \/ includesPhrase(allText, <<"new", "to">>)
     \/ includesPhrase(allText, <<"first", "time">>)
     \/ includesPhrase(allText, <<"never", "done">>)
  THEN "beginner"
  ELSE IF \/ includes(allText, "expert") \/ includes(allText, "professional")
          \/ includes(allText, "mechanic")
          \/ includesPhrase(allText, <<"years", "of", "experience">>)
       THEN "expert"
       ELSE "intermediate"

\* the make the extractor keeps: the last match
LastMatch(matches) == IF matches = <<>> THEN "" ELSE matches[Len(matches)]

\* the extractor keeping the first mention of a make instead of the last
extractUserPreferencesFirstMake(messages) ==
  LET allText == toLowerCase(JoinContents(messages))
      makeMatches == matchAll(allText, Makes)
      modelMatches == matchAll(allText, Models)
      years == YearMatches(allText)
  IN [vehicleMake |-> IF makeMatches = <<>> THEN "" ELSE makeMatches[1],
      vehicleModel |-> LastMatch(modelMatches),
      vehicleYear |-> IF years = {} THEN 0 ELSE SetMax(years),
      experienceLevel |-> ExperienceLevel(allText),
      interests |-> Interests(allText)]

\* the extractor keeping the first match of /\b(19|20)\d{2}\b/ as the year
extractUserPreferencesFirstYear(messages) ==
  LET allText == toLowerCase(JoinContents(messages))
      makeMatches == matchAll(allText, Makes)
      modelMatches == matchAll(allText, Models)
      yearLike == SelectSeq(allText, LAMBDA t : testYearLike(<<t>>))
  IN [vehicleMake |-> LastMatch(makeMatches),
      vehicleModel |-> LastMatch(modelMatches),
      vehicleYear |-> IF yearLike = <<>> THEN 0 ELSE ParseIntTable[yearLike[1]],
      experienceLevel |-> ExperienceLevel(allText),
      interests |-> Interests(allText)]

extractUserPreferences(messages) ==
  LET allText == toLowerCase(JoinContents(messages))
      makeMatches == matchAll(allText, Makes)
      modelMatches == matchAll(allText, Models)
      years == YearMatches(allText)
  IN [vehicleMake |-> LastMatch(makeMatches),
      vehicleModel |-> LastMatch(modelMatches),
      vehicleYear |-> IF years = {} THEN 0 ELSE SetMax(years),
      experienceLevel |-> ExperienceLevel(allText),
      interests |-> Interests(allText)]

\* { ...old, ...new }
Spread(old, new) ==
  [k \in DOMAIN old \cup DOMAIN new |-> IF k \in DOMAIN new THEN new[k] ELSE old[k]]

----------------------------------------------------------------------------
(* Query classifier (in the POST handler) *)

SpecificParts ==
  {<<"brake", "pad">>, <<"oil", "filter">>, <<"spark", "plug">>,
   <<"cam", "chain", "tensioner">>, <<"alternator">>, <<"starter">>,
   <<"water", "pump">>, <<"boost", "control">>, <<"solenoid">>, <<"ebcs">>,
   <<"turbo">>, <<"intercooler">>, <<"downpipe">>}

SpecificModels ==
  {"civic", "accord", "camry", "corolla", "f150", "mustang", "cb750", "wrx",
   "sti", "subaru", "bmw", "audi", "mercedes", "lexus", "acura"}

ContextModels ==
  {"civic", "accord", "cb750", "m3", "camry", "wrx", "sti", "subaru", "bmw",
   "audi", "mercedes", "lexus", "acura"}

FollowUpWords == {"tips", "advice", "help", "guide", "install", "replace", "fix"}

\* /^(want|need|looking for)\s+(info|information|help)$/i.test(message.trim())
StandaloneRequest(message) ==
  LET m == toLowerCase(message)
  IN \/ Len(m) = 2 /\ m[1] \in {"want", "need"} /\ m[2] \in {"info", "information", "help"}
     \/ Len(m) = 3 /\ m[1] = "looking" /\ m[2] = "for"
          /\ m[3] \in {"info", "information", "help"}

isVague(message) ==
  LET m == toLowerCase(message)
  IN \/ length(message) < VagueLen
     \/ includesPhrase(m, <<"information", "about">>) /\ length(message) < VaguePhraseLen
     \/ includesPhrase(m, <<"tell", "me", "about">>) /\ length(message) < VaguePhraseLen
     \/ Len(m) >= 2 /\ m[Len(m) - 1] \in {"honda", "toyota", "bmw", "ford"}
          /\ m[Len(m)] \in {"motor", "motors", "part", "parts", "info"}
     \/ StandaloneRequest(message)

isSpecific(message) ==
  LET m == toLowerCase(message)
  IN \/ \E p \in SpecificParts : includesPhrase(m, p)
     \/ testYearLike(message)
     \/ testWords(message, SpecificModels)
     \/ length(message) > SpecificLen

isFollowUpQuestion(message, userMemory) ==
  /\ testWords(message, FollowUpWords) \/ includesPhrase(toLowerCase(message), <<"how", "to">>)
  /\ Len(userMemory.messages) > FollowUpMinMessages
  /\ userMemory.userPreferences.vehicleMake # ""

\* the context test asking for more than one exchange, as the follow-up test does
hasConversationContextAfterReply(userMemory) ==
  /\ Len(userMemory.messages) > FollowUpMinMessages
  /\ \/ userMemory.userPreferences.vehicleMake # ""
     \/ \E i \in 1..Len(userMemory.searchHistory) :
          \/ testYearLike(userMemory.searchHistory[i])
          \/ testWords(userMemory.searchHistory[i], ContextModels)

hasConversationContext(userMemory) ==
  /\ Len(userMemory.messages) > 0
  /\ \/ userMemory.userPreferences.vehicleMake # ""
     \/ \E i \in 1..Len(userMemory.searchHistory) :
          \/ testYearLike(userMemory.searchHistory[i])
          \/ testWords(userMemory.searchHistory[i], ContextModels)

\* the condition of the web search without its vagueness test
shouldSearchWebIgnoringVague(message, userMemory) ==
  \/ isSpecific(message)
  \/ isFollowUpQuestion(message, userMemory)
  \/ hasConversationContext(userMemory)

\* the condition of the web search at line 1136
shouldSearchWeb(message, userMemory) ==
  /\ ~isVague(message)
  /\ \/ isSpecific(message)
     \/ isFollowUpQuestion(message, userMemory)
     \/ hasConversationContext(userMemory)

----------------------------------------------------------------------------
(* Proactive search planner *)

PartWords == {"tensioner", "brake", "clutch", "chain", "gear", "oil", "filter", "tire"}

\* the match of /\b(tensioner|brake|...|spark plug|tire)\b/i that starts at token i
PartAt(text, i) ==
  IF Lower(text[i]) \in PartWords THEN <<text[i]>>
  ELSE IF i < Len(text) /\ Lower(text[i]) = "spark" /\ Lower(text[i + 1]) = "plug"
       THEN <<text[i], text[i + 1]>>
       ELSE <<>>

\* userMessage.match(...)?.[0]: the leftmost match, <<>> when there is none
FirstPart(text) ==
  LET hits == {i \in 1..Len(text) : PartAt(text, i) # <<>>}
  IN IF hits = {} THEN <<>>
     ELSE PartAt(text, CHOOSE i \in hits : \A j \in hits : i <= j)

\* `${x} ${preferences.vehicleMake || ''}`: the make as one more token, when set
MakeSuffix(preferences) ==
  IF preferences.vehicleMake = "" THEN <<>> ELSE <<preferences.vehicleMake>>

\* the planner returning every query it generated
generateProactiveSearchesUnlimited(userMessage, preferences) ==
  LET partName == FirstPart(userMessage)
      byPart ==
        IF /\ \/ includes(userMessage, "tensioner") \/ includes(userMessage, "brake")
              \/ includes(userMessage, "clutch")
           /\ partName # <<>>
        THEN << partName \o <<"installation", "guide">> \o MakeSuffix(preferences),
                partName \o <<"troubleshooting">> \o MakeSuffix(preferences),
                partName \o <<"replacement", "cost">> \o MakeSuffix(preferences) >>
        ELSE <<>>
      byVehicle ==
        IF preferences.vehicleMake # "" /\ preferences.vehicleModel # ""
        THEN << <<preferences.vehicleMake, preferences.vehicleModel, "common", "problems">>,
                <<preferences.vehicleMake, preferences.vehicleModel, "maintenance", "schedule">> >>
        ELSE <<>>
  IN byPart \o byVehicle

generateProactiveSearches(userMessage, preferences) ==
  LET partName == FirstPart(userMessage)
      byPart ==
        IF /\ \/ includes(userMessage, "tensioner") \/ includes(userMessage, "brake")
              \/ includes(userMessage, "clutch")
           /\ partName # <<>>
        THEN << partName \o <<"installation", "guide">> \o MakeSuffix(preferences),
                partName \o <<"troubleshooting">> \o MakeSuffix(preferences),
                partName \o <<"replacement", "cost">> \o MakeSuffix(preferences) >>
        ELSE <<>>
      byVehicle ==
        IF preferences.vehicleMake # "" /\ preferences.vehicleModel # ""
        THEN << <<preferences.vehicleMake, preferences.vehicleModel, "common", "problems">>,
                <<preferences.vehicleMake, preferences.vehicleModel, "maintenance", "schedule">> >>
        ELSE <<>>
  IN sliceFirst(byPart \o byVehicle, ProactiveLimit)

----------------------------------------------------------------------------
(* Web search service (WebSearchService.searchParts, as searchWebForParts uses it) *)

NoTimestamp == <<>>

RockAutoResult(query) ==
  [title |-> query \o <<"-", "RockAuto", "Parts", "Catalog">>,
   description |-> <<"Search", "for">> \o query \o
                   <<"on", "RockAuto's", "comprehensive", "parts", "catalog">>,
   supplier |-> "RockAuto", price |-> FALSE, site |-> "rockauto",
   source |-> "rockauto", timestamp |-> NoTimestamp]

EbayResult(title, price) ==
  [title |-> title, description |-> <<"eBay", "listing:">> \o title,
   supplier |-> "eBay Motors", price |-> price, site |-> "ebay",
   source |-> "ebay", timestamp |-> NoTimestamp]

AmazonResult(title, price) ==
  [title |-> title, description |-> <<"Amazon", "listing:">> \o title,
   supplier |-> "Amazon Automotive", price |-> price, site |-> "amazon",
   source |-> "amazon", timestamp |-> NoTimestamp]

extractSupplier(site) ==
  CASE site = "ebay" -> "eBay"
    [] site = "amazon" -> "Amazon"
    [] site = "rockauto" -> "RockAuto"
    [] OTHER -> site

BraveResult(title, description, site) ==
  [title |-> title, description |-> description,
   supplier |-> extractSupplier(site), price |-> FALSE, site |-> site,
   source |-> "brave", timestamp |-> NoTimestamp]

TrustedSuppliers == {"rockauto", "autozone", "advanceauto", "oreillyauto", "napaonline"}

\* the number of positions of terms whose term occurs in text
CountIncluded(terms, text) == Cardinality({i \in 1..Len(terms) : includes(text, terms[i])})

RankScore(result, query) ==
  LET queryTerms == toLowerCase(query)
  IN 3 * CountIncluded(queryTerms, toLowerCase(result.title))
     + CountIncluded(queryTerms, toLowerCase(result.description))
     + (IF result.site \in TrustedSuppliers THEN 2 ELSE 0)
     + (IF result.price THEN 1 ELSE 0)

\* keyed: a sequence of [key, val]; x goes after the entries whose key is >= its key
InsertDesc(keyed, x) ==
  LET n == Cardinality({i \in 1..Len(keyed) : keyed[i].key >= x.key})
  IN SubSeq(keyed, 1, n) \o <<x>> \o SubSeq(keyed, n + 1, Len(keyed))

RECURSIVE SortDesc(_)
\* array.sort((a, b) => b.key - a.key): descending by key, stable
SortDesc(keyed) ==
  IF keyed = <<>> THEN <<>>
  ELSE InsertDesc(SortDesc(SubSeq(keyed, 1, Len(keyed) - 1)), keyed[Len(keyed)])

rankResults(results, query) ==
  LET keyed == [i \in 1..Len(results) |->
                  [key |-> RankScore(results[i], query), val |-> results[i]]]
      sorted == SortDesc(keyed)
  IN [i \in 1..Len(sorted) |-> sorted[i].val]

\* what the scrapers and the search API can contribute to one call
ScrapedResults ==
  { <<>>,
    << BraveResult(<<"forum", "thread">>, <<"general", "discussion">>, "forum"),
       EbayResult(<<"Honda", "Civic", "brake", "pad", "set">>, TRUE),
       AmazonResult(<<"Toyota", "brake", "pad">>, FALSE),
       BraveResult(<<"brake", "pad">>, <<"parts">>, "amazon") >> }

searchParts(query, scraped) ==
  sliceFirst(rankResults(scraped \o <<RockAutoResult(query)>>, query), TopResults)

\* an outcome of searchWebForParts: the service threw, or it returned a list
WebOutcomes == {[threw |-> TRUE, scraped |-> <<>>]} \cup
               {[threw |-> FALSE, scraped |-> s] : s \in ScrapedResults}


----------------------------------------------------------------------------
(* Relevance scorer and filter *)

scoreResultRelevance(result, userQuery, userPreferences) ==
  LET queryTerms == toLowerCase(userQuery)
      resultText == toLowerCase(result.title \o result.description)
  IN 10 * CountIncluded(queryTerms, resultText)
     + (IF userPreferences.vehicleMake # ""
           /\ includes(resultText, Lower(userPreferences.vehicleMake)) THEN 20 ELSE 0)
     + (IF userPreferences.vehicleModel # ""
           /\ includes(resultText, Lower(userPreferences.vehicleModel)) THEN 15 ELSE 0)
     + (IF result.supplier = "RockAuto" THEN 10 ELSE 0)
     + (IF result.supplier = "eBay" /\ result.price THEN 5 ELSE 0)
     + (IF result.supplier = "Amazon" THEN 8 ELSE 0)
     + (IF result.timestamp # NoTimestamp /\ result.timestamp[1] < 24 THEN 5 ELSE 0)

\* a result with its relevanceScore: { ...result, relevanceScore }
Scored(result, score) ==
  [title |-> result.title, description |-> result.description,
   supplier |-> result.supplier, price |-> result.price, site |-> result.site,
   source |-> result.source, timestamp |-> result.timestamp,
   relevanceScore |-> score]

\* the filter without the cut to the first eight
filterResultsUncapped(allWebResults, message, userPreferences) ==
  LET scoredResults == [i \in 1..Len(allWebResults) |->
         Scored(allWebResults[i],
                scoreResultRelevance(allWebResults[i], message, userPreferences))]
      kept == SelectSeq(scoredResults, LAMBDA r : r.relevanceScore > MinRelevance)
      sorted == SortDesc([i \in 1..Len(kept) |->
                            [key |-> kept[i].relevanceScore, val |-> kept[i]]])
  IN [i \in 1..Len(sorted) |-> sorted[i].val]

\* lines 1154-1164: score the pool, keep the results above the threshold,
\* sort them by descending score, keep the first eight
filterResults(allWebResults, message, userPreferences) ==
  LET scoredResults == [i \in 1..Len(allWebResults) |->
         Scored(allWebResults[i],
                scoreResultRelevance(allWebResults[i], message, userPreferences))]
      kept == SelectSeq(scoredResults, LAMBDA r : r.relevanceScore > MinRelevance)
      sorted == SortDesc([i \in 1..Len(kept) |->
                            [key |-> kept[i].relevanceScore, val |-> kept[i]]])
  IN sliceFirst([i \in 1..Len(sorted) |-> sorted[i].val], TopResults)

----------------------------------------------------------------------------
(* Fallback templates *)

FallbackFollowUps == {"tips", "advice", "help", "guide"}

FallbackParts ==
  {<<"brake", "pad">>, <<"oil", "filter">>, <<"spark", "plug">>, <<"air", "filter">>,
   <<"cam", "chain", "tensioner">>, <<"clutch", "plate">>, <<"timing", "belt">>,
   <<"water", "pump">>, <<"alternator">>, <<"starter">>, <<"boost", "control">>,
   <<"solenoid">>, <<"ebcs">>, <<"turbo">>, <<"intercooler">>, <<"downpipe">>}

FallbackProblems ==
  {<<"won't", "start">>, <<"making", "noise">>, <<"overheating">>, <<"leaking">>,
   <<"grinding">>, <<"squealing">>, <<"rough", "idle">>, <<"boost", "spikes">>,
   <<"inconsistent", "boost">>}

FallbackModels ==
  {"civic", "accord", "camry", "corolla", "f150", "mustang", "cb750", "m3", "m1",
   "wrx", "sti", "subaru", "bmw", "audi", "mercedes", "lexus", "acura", "hatchback"}

fallbackIsVague(message) ==
  LET lowerMessage == toLowerCase(message)
  IN \/ length(lowerMessage) < FallbackVagueLen
     \/ includesPhrase(lowerMessage, <<"information", "about">>)
          /\ length(lowerMessage) < FallbackPhraseLen
     \/ includesPhrase(lowerMessage, <<"tell", "me", "about">>)
          /\ length(lowerMessage) < FallbackPhraseLen
     \/ lowerMessage = <<"honda", "motors">> \/ lowerMessage = <<"toyota", "parts">>
     \/ StandaloneRequest(message)
     \/ /\ splitLength(lowerMessage) < FallbackMinWords
        /\ ~includes(lowerMessage, "tensioner") /\ ~includes(lowerMessage, "solenoid")
        /\ ~includes(lowerMessage, "ebcs")

FallbackResponse(template, parts, knowledgeBase, webResults) ==
  [template |-> template, parts |-> parts, knowledgeBase |-> knowledgeBase,
   webResults |-> webResults]

\* the templates, the clarifying one passing the search results on
getFallbackResponseKeepingResults(message, foundParts, webResults, knowledgeBase) ==
  IF fallbackIsVague(message) /\ ~testWords(message, FallbackFollowUps)
  THEN FallbackResponse("clarify", foundParts, knowledgeBase, webResults)
  ELSE FallbackResponse("general", foundParts, knowledgeBase, webResults)

getFallbackResponse(message, foundParts, webResults, knowledgeBase) ==
  LET lowerMessage == toLowerCase(message)
      isSpecificPart == \E p \in FallbackParts : includesPhrase(lowerMessage, p)
      isSpecificProblem == \E p \in FallbackProblems : includesPhrase(lowerMessage, p)
      hasVehicleDetails == testYearLike(message) \/ testWords(message, FallbackModels)
      isFollowUpRequest ==
        \/ testWords(message, FallbackFollowUps)
        \/ includesPhrase(lowerMessage, <<"more", "info">>)
        \/ includesPhrase(lowerMessage, <<"tell", "me", "more">>)
  IN IF isFollowUpRequest /\ ~fallbackIsVague(message)
     THEN FallbackResponse("tips", foundParts, knowledgeBase, webResults)
     ELSE IF fallbackIsVague(message)
     THEN FallbackResponse("clarify", <<>>, <<>>, <<>>)
     ELSE IF isSpecificPart \/ isSpecificProblem \/ hasVehicleDetails
             \/ length(message) > FallbackLongLen
     THEN FallbackResponse("specific", foundParts, knowledgeBase, webResults)
     ELSE IF includesPhrase(lowerMessage, <<"cam", "chain", "tensioner">>)
             \/ includes(lowerMessage, "cct")
     THEN FallbackResponse("cct", <<>>, <<>>, <<>>)
     ELSE FallbackResponse("general", foundParts, knowledgeBase, webResults)

----------------------------------------------------------------------------
(* Site crawler: the global crawl state and the functions on it *)

\* the crawled site: each page's links as extractLinks returns them (absolute,
\* without duplicates); "x" is a page of another host
SiteLinks ==
  [p0 |-> <<"p0", "p1", "x">>, p1 |-> <<"p1", "p0", "p2">>, p2 |-> <<"p0">>, x |-> <<>>]

NoConfig == [baseUrl |-> ""]

\* the state the two crawl routes initialize global.crawlState with
IdleCrawlState ==
  [isActive |-> FALSE, currentUrl |-> "", foundUrls |-> 0, processedCount |-> 0,
   savedEntries |-> 0, errors |-> 0, status |-> "Idle", urlQueue |-> <<>>,
   processedUrls |-> {}, config |-> NoConfig]

\* the state a start request installs
StartedCrawlState(config) ==
  [isActive |-> TRUE, currentUrl |-> config.baseUrl, foundUrls |-> 1,
   processedCount |-> 0, savedEntries |-> 0, errors |-> 0,
   status |-> "Starting crawl...",
   urlQueue |-> <<[url |-> config.baseUrl, depth |-> 0]>>,
   processedUrls |-> {}, config |-> config]

\* includePatterns and excludePatterns are '' (their defaults): only the
\* domain restriction decides; p0, p1 and p2 are pages of the base URL's host
shouldProcessUrl(url, config) == config.onlyDomain => url \in {"p0", "p1", "p2"}

RECURSIVE pushLinks(_, _, _)
\* the loop over extraction.links: a link is queued when it is not processed
\* yet, passes shouldProcessUrl, and the queue holds fewer than maxPages entries
pushLinks(state, links, depth) ==
  IF links = <<>> THEN state
  ELSE LET link == Head(links)
           pushed == IF /\ link \notin state.processedUrls
                        /\ shouldProcessUrl(link, state.config)
                        /\ Len(state.urlQueue) < state.config.maxPages
                     THEN [state EXCEPT !.urlQueue =
                             Append(@, [url |-> link, depth |-> depth + 1])]
                     ELSE state
       IN pushLinks(pushed, Tail(links), depth)

\* how the awaited part of one processing step ends: the page is saved as a
\* new entry, it is already known, it has no usable content (or the fetch
\* failed), or an await threw
FetchOutcomes == {"saved", "known", "empty", "threw"}

\* the part of processCrawlQueue after its awaits, up to the decision to go on
afterFetch(state, url, depth, outcome) ==
  LET counted == [state EXCEPT
                    !.savedEntries = IF outcome = "saved" THEN @ + 1 ELSE @,
                    !.errors = IF outcome = "threw" THEN @ + 1 ELSE @]
      queued == IF outcome \in {"saved", "known"} /\ depth < counted.config.maxDepth
                THEN LET q == pushLinks(counted, SiteLinks[url], depth)
                     IN [q EXCEPT !.foundUrls =
                           Len(q.urlQueue) + Cardinality(q.processedUrls)]
                ELSE counted
  IN queued

\* the crawl goes on after a step
continues(state) ==
  Cardinality(state.processedUrls) < state.config.maxPages /\ state.urlQueue # <<>>

Completed(state) == [state EXCEPT !.isActive = FALSE, !.status = "Completed"]

\* a processCrawlQueue chain: idle, its callback scheduled, or between the
\* awaits of a step on `url`
NoCrawler == [pc |-> "none", url |-> "", depth |-> 0]

----------------------------------------------------------------------------
(* Post votes *)

Voters == {"u1", "u2", "u3"}

ValidTypes == {"up", "down", "remove"}

\* a post as it is created: no votes
NewPost == [upvotes |-> <<>>, downvotes |-> <<>>]

\* array.filter(id => id.toString() !== userId)
withoutUser(ids, userId) == SelectSeq(ids, LAMBDA id : id # userId)

\* the vote added without removing the user's existing votes
castVoteKeepingOld(doc, userId, type) ==
  [upvotes |-> IF type = "up" THEN Append(doc.upvotes, userId) ELSE doc.upvotes,
   downvotes |-> IF type = "down" THEN Append(doc.downvotes, userId) ELSE doc.downvotes]

\* vote/route.ts lines 44-53: remove the user's existing votes, then add the
\* new vote unless it is a removal
castVote(doc, userId, type) ==
  LET upvotes == withoutUser(doc.upvotes, userId)
      downvotes == withoutUser(doc.downvotes, userId)
  IN [upvotes |-> IF type = "up" THEN Append(upvotes, userId) ELSE upvotes,
      downvotes |-> IF type = "down" THEN Append(downvotes, userId) ELSE downvotes]

\* the status a vote request is answered with before the post is changed, 0
\* to go on: 401 unauthenticated, 400 invalid type, 404 no such post
voteStatus(user, type, found) ==
  IF user = "none" THEN 401
  ELSE IF type \notin ValidTypes THEN 400
  ELSE IF ~found THEN 404
  ELSE 0

----------------------------------------------------------------------------
(* Knowledge feedback *)

FeedbackReq == {"f1", "f2"}   \* feedback requests that can be in flight together

DefaultUsefulness == 5

\* a knowledge entry as it is created: no feedback, the schema's defaults
NewKnowledge == [feedback |-> <<>>, usefulness_score |-> DefaultUsefulness, usage_count |-> 0]

IdleFeedback ==
  [pc |-> "idle", user |-> "none", rating |-> 0, doc |-> NewKnowledge, status |-> 0]

RECURSIVE SumRatings(_)
\* feedback.reduce((sum, fb) => sum + fb.rating, 0)
SumRatings(feedback) ==
  IF feedback = <<>> THEN 0 ELSE Head(feedback).rating + SumRatings(Tail(feedback))

\* Math.round((sumRatings / totalRatings) * 2), the ratings being positive:
\* the nearest integer, a half rounded up
usefulness(feedback) == (4 * SumRatings(feedback) + Len(feedback)) \div (2 * Len(feedback))

\* !rating || rating < 1 || rating > 5 (no rating is 0)
invalidRating(rating) == rating = 0 \/ rating < 1 \/ rating > 5

\* knowledge.feedback.find(fb => fb.user.toString() === userId)
existingFeedback(doc, userId) == \E i \in 1..Len(doc.feedback) : doc.feedback[i].user = userId

\* addFeedback on the loaded document, up to its save()
addFeedback(doc, userId, rating) ==
  LET feedback == Append(doc.feedback, [user |-> userId, rating |-> rating])
  IN [doc EXCEPT !.feedback = feedback, !.usefulness_score = usefulness(feedback)]

\* incrementUsage on the loaded document, up to its save()
incrementUsage(doc) == [doc EXCEPT !.usage_count = @ + 1]

----------------------------------------------------------------------------
(* Inputs and external collaborators *)

Users == {"u1", "u2"}
NoUser == "none"          \* getUserFromRequest returned null
Req == {"r1", "r2"}       \* requests that can be in flight together

\* the number of requests one behaviour receives
MaxRequests == 2

Messages ==
  { <<"honda">>,
    <<"I", "have", "a", "2015", "Honda", "Civic">>,
    <<"give", "me", "tips">>,
    <<"toyota", "brake", "pad">> }

\* request bodies: one that request.json() rejects, one without a message
\* (message <<>>: absent or the empty string), and the messages
Bodies ==
  {[ok |-> FALSE, message |-> <<>>]} \cup
  {[ok |-> TRUE, message |-> m] : m \in {<<>>} \cup Messages}

\* Part.find(...): it throws, or returns the matching parts
DbOutcomes == {[threw |-> TRUE, parts |-> <<>>], [threw |-> FALSE, parts |-> <<"p1">>]}

\* Knowledge.searchByQuery / findByVehicle: they throw, or return entries
KbOutcomes == {[threw |-> TRUE, entries |-> <<>>], [threw |-> FALSE, entries |-> <<"k1">>]}

KbIds == {"k1"}

\* openai.chat.completions.create: it throws, or returns the content
LlmOutcomes ==
  {[threw |-> TRUE, content |-> <<>>],
   [threw |-> FALSE, content |-> <<"check", "the", "manual">>],
   [threw |-> FALSE, content |-> <<"try", "a", "Toyota", "pad">>]}

\* how a call ends: it returns a value, or it throws
Returned(value) == [threw |-> FALSE, value |-> value]
Thrown == [threw |-> TRUE, value |-> <<>>]

\* try { ... return parts } catch { return [] }
searchPartsInDatabase(outcome) ==
  IF outcome.threw THEN Returned(<<>>) ELSE Returned(outcome.parts)

\* try { ... return uniqueKnowledge } catch { return [] }
searchKnowledgeBase(outcome) ==
  IF outcome.threw THEN Returned(<<>>) ELSE Returned(sliceFirst(outcome.entries, 5))

\* the web search without its try/catch
searchWebForPartsUncaught(query, outcome) ==
  IF outcome.threw THEN Thrown ELSE Returned(searchParts(query, outcome.scraped))

\* try { return await webSearchService.searchParts(...) } catch { return [] }
searchWebForParts(query, outcome) ==
  IF outcome.threw THEN Returned(<<>>) ELSE Returned(searchParts(query, outcome.scraped))

\* try { ... return content || null } catch { return null }; <<>> stands for null
getEnhancedAIResponse(outcome) ==
  IF outcome.threw THEN Returned(<<>>) ELSE Returned(outcome.content)

----------------------------------------------------------------------------
(* State *)

\* the number of requests the crawl routes receive in one behaviour
MaxCrawlRequests == 3

\* every accepted start request begins one chain
Crawlers == 1..MaxCrawlRequests

VARIABLES
  apiKey,              \* process.env.OPENAI_API_KEY is set
  conversationMemory,  \* the Map: user id -> ConversationRecord
  requests,            \* request -> its position and local variables
  usageCount,          \* Knowledge.usage_count of the entries
  received,            \* the number of requests received so far (also the clock)
  history,             \* per user: what has happened so far (for the properties)
  scoring,             \* the calls of scoreResultRelevance made on their own
  crawlState,          \* global.crawlState
  crawlers,            \* the processCrawlQueue chains
  starting,            \* start requests between the isActive check and request.json()
  crawlRequests,       \* the number of crawl requests received so far
  crawlLog,            \* the crawl requests answered so far: action and status
  post,                \* the Post document in the database
  voteRequests,        \* the number of vote requests received so far
  voteResponse,        \* the last vote request and its response
  lastVote,            \* per user: the type of their last vote that was stored (for the properties)
  knowledge,           \* the Knowledge document in the database
  feedbackRequests,    \* feedback request -> its position and local variables
  feedbackReceived     \* the number of feedback requests received so far

chatVars == <<apiKey, conversationMemory, requests, usageCount, received, history>>

\* the state of the crawl routes
crawlVars == <<crawlState, crawlers, starting, crawlRequests, crawlLog>>

\* the state outside the chat handler
siteVars ==
  <<scoring, crawlVars, post, voteRequests, voteResponse, lastVote,
    knowledge, feedbackRequests, feedbackReceived>>

vars == <<chatVars, siteVars>>

NoResponse ==
  [status |-> 0, template |-> "none", text |-> <<>>, parts |-> <<>>,
   knowledgeBase |-> <<>>, webResults |-> <<>>,
   sources |-> [database |-> 0, knowledge |-> 0, web |-> 0, proactiveSearches |-> 0]]

\* NextResponse.json({ error }, { status })
ErrorResponse(status) == [NoResponse EXCEPT !.status = status, !.template = "error"]

IdleRequest ==
  [pc |-> "idle", user |-> NoUser, body |-> [ok |-> FALSE, message |-> <<>>],
   foundParts |-> <<>>, knowledgeBase |-> <<>>, webResults |-> <<>>,
   proactiveResults |-> <<>>, proactiveSearches |-> <<>>, filteredResults |-> <<>>,
   view |-> <<>>, index |-> 0, calls |-> <<>>, issued |-> <<>>, failed |-> {},
   response |-> NoResponse]

NewRecord(now) ==
  [messages |-> <<>>, userPreferences |-> EmptyPreferences,
   searchHistory |-> <<>>, lastActive |-> now]

\* the chat handler's module has just been loaded
InitChat ==
  /\ apiKey \in BOOLEAN
  /\ conversationMemory = [u \in {} |-> NewRecord(0)]
  /\ requests = [r \in Req |-> IdleRequest]
  /\ usageCount = [k \in KbIds |-> 0]
  /\ received = 0
  /\ history = [u \in Users |->
                  [validated |-> FALSE, overlapped |-> FALSE, turnsDone |-> 0, llmDone |-> 0]]

\* the crawl routes' modules have just been loaded; one post without votes
\* and one knowledge entry without feedback are stored; no request yet
InitRoutes ==
  /\ crawlState = IdleCrawlState
  /\ crawlers = [c \in Crawlers |-> NoCrawler]
  /\ starting = 0
  /\ crawlRequests = 0
  /\ crawlLog = <<>>
  /\ post = NewPost
  /\ voteRequests = 0
  /\ voteResponse = [user |-> "none", id |-> "", type |-> "", status |-> 0]
  /\ lastVote = [u \in Voters |-> "none"]
  /\ knowledge = NewKnowledge
  /\ feedbackRequests = [r \in FeedbackReq |-> IdleFeedback]
  /\ feedbackReceived = 0

Init ==
  /\ InitChat
  /\ scoring = <<>>
  /\ InitRoutes

\* a turn of user u is between its memory update and its response
InTurn(u) ==
  {r \in Req : requests[r].user = u /\ requests[r].pc \notin {"idle", "json", "done"}}

----------------------------------------------------------------------------
(* The POST handler, one action per stretch between two awaits *)

\* the final NextResponse.json(...) of a turn, lines 1232-1250
SuccessResponse(rec, template, text, parts, knowledgeBase, webResults) ==
  [status |-> 200, template |-> template, text |-> text, parts |-> parts,
   knowledgeBase |-> knowledgeBase, webResults |-> webResults,
   sources |-> [database |-> Len(rec.foundParts),
                knowledge |-> Len(rec.knowledgeBase),
                web |-> Len(rec.filteredResults),
                proactiveSearches |-> Len(rec.proactiveSearches)]]

\* the request is over: its locals are gone, its response is kept
Finished(rec, response) ==
  [IdleRequest EXCEPT !.pc = "done", !.user = rec.user, !.body = rec.body,
                      !.calls = rec.calls, !.issued = rec.issued,
                      !.failed = rec.failed,
                      !.response = response]

FallbackFinished(rec) ==
  LET fb == getFallbackResponse(rec.body.message, rec.foundParts,
                                rec.filteredResults, rec.knowledgeBase)
  IN Finished(rec, SuccessResponse(rec, fb.template, <<>>, fb.parts,
                                   fb.knowledgeBase, fb.webResults))

AiFinished(rec, text) ==
  Finished(rec, SuccessResponse(rec, "ai", text, rec.foundParts,
                                rec.knowledgeBase, rec.filteredResults))

\* the LLM call handed only the turn's own message as its history
AfterSearchesOwnMessage(rec, userMemory) ==
  LET scored == [rec EXCEPT !.filteredResults =
                   filterResults(rec.webResults \o rec.proactiveResults,
                                 rec.body.message, userMemory.userPreferences)]
  IN IF apiKey
     THEN [scored EXCEPT !.pc = "llm", !.issued = Append(@, "llm"),
                         !.view = <<[role |-> "user", content |-> rec.body.message]>>]
     ELSE FallbackFinished(scored)

\* lines 1153-1190 and 1227-1230: score and filter the pool, then call the
\* LLM when a key is configured, else answer from the fallback templates
AfterSearches(rec, userMemory) ==
  LET scored == [rec EXCEPT !.filteredResults =
                   filterResults(rec.webResults \o rec.proactiveResults,
                                 rec.body.message, userMemory.userPreferences)]
  IN IF apiKey
     THEN [scored EXCEPT !.pc = "llm", !.issued = Append(@, "llm"),
                         !.view = sliceLast(userMemory.messages, ContextWindow)]
     ELSE FallbackFinished(scored)

TurnDone(u, byLlm) ==
  history' = [history EXCEPT ![u].turnsDone = @ + 1,
                             ![u].llmDone = IF byLlm THEN @ + 1 ELSE @]

\* what a request that has just run to `rec` does to the history
Account(r, rec) ==
  IF rec.pc = "done" /\ rec.response.status = 200
  THEN TurnDone(rec.user, rec.response.template = "ai")
  ELSE UNCHANGED history

\* the outer catch, lines 1251-1257
Aborted(rec) == Finished(rec, ErrorResponse(500))

\* lines 1050-1056: the status the authentication check answers with, 0 to go on
authStatus(user) == IF user = NoUser THEN 401 ELSE 0

\* the validation without the test for a missing message
validationStatusLenient(body) == IF ~body.ok THEN 500 ELSE 0

\* lines 1058-1065: the status the body is rejected with, 0 to go on
validationStatus(body) ==
  IF ~body.ok THEN 500 ELSE IF body.message = <<>> THEN 400 ELSE 0

\* lines 1048-1058: a request arrives; no verified user: 401
Receive(r, users, bodies, limit, alone) ==
  /\ requests[r].pc \in {"idle", "done"}
  /\ received < limit
  /\ alone => \A q \in Req : requests[q].pc \in {"idle", "done"}
  /\ \E user \in users, body \in bodies :
       LET rec == [IdleRequest EXCEPT !.user = user, !.body = body]
       IN requests' = [requests EXCEPT ![r] =
            IF authStatus(user) # 0
            THEN Finished(rec, ErrorResponse(authStatus(user)))
            ELSE [rec EXCEPT !.pc = "json"]]
  /\ received' = received + 1
  /\ UNCHANGED <<apiKey, conversationMemory, usageCount, history>>
  /\ UNCHANGED siteVars

\* the memory update on a map that is made anew: the other users' records are lost
rememberMessageFresh(memory, userId, message, now) ==
  LET old == IF userId \in DOMAIN memory THEN memory[userId] ELSE NewRecord(now)
      messages == Append(old.messages, [role |-> "user", content |-> message])
  IN [u \in {userId} |->
        [old EXCEPT !.messages = messages,
                    !.userPreferences = Spread(old.userPreferences,
                                               extractUserPreferences(messages)),
                    !.searchHistory = Append(old.searchHistory, message),
                    !.lastActive = now]]

\* the memory update storing only the context window
rememberMessageWindowed(memory, userId, message, now) ==
  LET old == IF userId \in DOMAIN memory THEN memory[userId] ELSE NewRecord(now)
      messages == sliceLast(Append(old.messages, [role |-> "user", content |-> message]),
                            ContextWindow)
      updated == [old EXCEPT
                    !.messages = messages,
                    !.userPreferences = Spread(old.userPreferences,
                                               extractUserPreferences(messages)),
                    !.searchHistory = Append(old.searchHistory, message),
                    !.lastActive = now]
  IN [u \in DOMAIN memory \cup {userId} |-> IF u = userId THEN updated ELSE memory[u]]

\* lines 1067-1098: get or create the record, append the user message,
\* re-derive the preferences, append to the search history
rememberMessage(memory, userId, message, now) ==
  LET old == IF userId \in DOMAIN memory THEN memory[userId] ELSE NewRecord(now)
      messages == Append(old.messages, [role |-> "user", content |-> message])
      updated == [old EXCEPT
                    !.messages = messages,
                    !.userPreferences = Spread(old.userPreferences,
                                               extractUserPreferences(messages)),
                    !.searchHistory = Append(old.searchHistory, message),
                    !.lastActive = now]
  IN [u \in DOMAIN memory \cup {userId} |-> IF u = userId THEN updated ELSE memory[u]]

\* the database search left out for a message the classifier will call vague
startDatabaseSearchUnlessVague(rec) ==
  IF isVague(rec.body.message)
  THEN [rec EXCEPT !.pc = "kb", !.issued = Append(@, "kb")]
  ELSE [rec EXCEPT !.pc = "db", !.issued = Append(@, "db")]

\* line 1101: searchPartsInDatabase(message) is called
startDatabaseSearch(rec) == [rec EXCEPT !.pc = "db", !.issued = Append(@, "db")]

\* line 1104: searchKnowledgeBase(message) is called
startKnowledgeSearch(rec) == [rec EXCEPT !.pc = "kb", !.issued = Append(@, "kb")]

\* lines 1138 and 1145: searchWebForParts(query) is called
startWebSearch(rec, pc, query) ==
  [rec EXCEPT !.pc = pc, !.calls = Append(@, query), !.issued = Append(@, "web")]

\* lines 1058-1101: the body is read; unreadable: 500 (the outer catch);
\* no message: 400; else the memory is updated and the database search starts
JsonReturn(r) ==
  LET rec == requests[r]
  IN /\ rec.pc = "json"
     /\ IF validationStatus(rec.body) # 0
        THEN /\ requests' = [requests EXCEPT ![r] =
                               Finished(rec, ErrorResponse(validationStatus(rec.body)))]
             /\ UNCHANGED conversationMemory
        ELSE /\ conversationMemory' =
                  rememberMessage(conversationMemory, rec.user, rec.body.message, received)
             /\ requests' = [requests EXCEPT ![r] = startDatabaseSearch(rec)]
     /\ history' = [history EXCEPT
          ![rec.user].validated = @ \/ (rec.body.ok /\ rec.body.message # <<>>),
          ![rec.user].overlapped = @ \/ (validationStatus(rec.body) = 0 /\ InTurn(rec.user) # {})]
     /\ UNCHANGED <<apiKey, usageCount, received>>
     /\ UNCHANGED siteVars

\* lines 1101-1104: the database search returns; the knowledge search starts
DbReturn(r, outcomes) ==
  LET rec == requests[r]
  IN /\ rec.pc = "db"
     /\ \E outcome \in outcomes :
          LET res == searchPartsInDatabase(outcome)
          IN requests' = [requests EXCEPT ![r] =
               IF res.threw THEN Aborted(rec)
               ELSE startKnowledgeSearch(
                      [rec EXCEPT !.foundParts = res.value,
                                  !.failed = IF outcome.threw THEN @ \cup {"db"} ELSE @])]
     /\ UNCHANGED <<apiKey, conversationMemory, usageCount, received, history>>
     /\ UNCHANGED siteVars

\* lines 1104-1138: the knowledge search returns; the message is classified;
\* the direct web search starts, or the turn goes on without any
KbReturn(r, outcomes) ==
  LET rec == requests[r]
      userMemory == conversationMemory[rec.user]
  IN /\ rec.pc = "kb"
     /\ \E outcome \in outcomes :
          LET res == searchKnowledgeBase(outcome)
              got == [rec EXCEPT !.knowledgeBase = res.value,
                                 !.failed = IF outcome.threw THEN @ \cup {"kb"} ELSE @]
              next == IF res.threw THEN Aborted(rec)
                      ELSE IF shouldSearchWeb(rec.body.message, userMemory)
                      THEN startWebSearch(got, "web", rec.body.message)
                      ELSE AfterSearches(got, userMemory)
          IN /\ requests' = [requests EXCEPT ![r] = next]
             /\ Account(r, next)
     /\ UNCHANGED <<apiKey, conversationMemory, usageCount, received>>
     /\ UNCHANGED siteVars

\* lines 1138-1145: the direct web search returns; the proactive searches are
\* planned and the first one starts
WebReturn(r, outcomes) ==
  LET rec == requests[r]
      userMemory == conversationMemory[rec.user]
  IN /\ rec.pc = "web"
     /\ \E outcome \in outcomes :
          LET searches == generateProactiveSearches(rec.body.message,
                                                    userMemory.userPreferences)
              res == searchWebForParts(rec.body.message, outcome)
              got == [rec EXCEPT !.webResults = res.value,
                                 !.proactiveSearches = searches,
                                 !.failed = IF outcome.threw THEN @ \cup {"web"} ELSE @]
              next == IF res.threw THEN Aborted(rec)
                      ELSE IF searches # <<>>
                      THEN startWebSearch([got EXCEPT !.index = 1], "pro", searches[1])
                      ELSE AfterSearches(got, userMemory)
          IN /\ requests' = [requests EXCEPT ![r] = next]
             /\ Account(r, next)
     /\ UNCHANGED <<apiKey, conversationMemory, usageCount, received>>
     /\ UNCHANGED siteVars

\* lines 1143-1150: a proactive search returns (a throw is caught and logged
\* inside the loop); the next one starts
ProactiveReturn(r, outcomes) ==
  LET rec == requests[r]
      userMemory == conversationMemory[rec.user]
  IN /\ rec.pc = "pro"
     /\ \E outcome \in outcomes :
          LET res == searchWebForParts(rec.proactiveSearches[rec.index], outcome)
              got == [rec EXCEPT
                        !.proactiveResults = IF res.threw THEN @ ELSE @ \o res.value,
                        !.failed = IF outcome.threw THEN @ \cup {"pro"} ELSE @]
              next == IF rec.index < Len(rec.proactiveSearches)
                      THEN startWebSearch([got EXCEPT !.index = @ + 1], "pro",
                                          rec.proactiveSearches[rec.index + 1])
                      ELSE AfterSearches(got, userMemory)
          IN /\ requests' = [requests EXCEPT ![r] = next]
             /\ Account(r, next)
     /\ UNCHANGED <<apiKey, conversationMemory, usageCount, received>>
     /\ UNCHANGED siteVars

\* the reply appended to every record of the map
rememberReplyToAll(memory, userId, text) ==
  [u \in DOMAIN memory |->
     [memory[u] EXCEPT !.messages = Append(@, [role |-> "assistant", content |-> text])]]

\* the reply overwriting the last entry instead of following it
rememberReplyOverwriting(memory, userId, text) ==
  [memory EXCEPT ![userId].messages =
     [@ EXCEPT ![Len(@)] = [role |-> "assistant", content |-> text]]]

\* lines 1207-1212: the assistant's reply is appended to the record
rememberReply(memory, userId, text) ==
  [memory EXCEPT ![userId].messages = Append(@, [role |-> "assistant", content |-> text])]

\* lines 1192-1226: the LLM call returns; a reply is stored and the usage
\* updates start; no reply: the fallback templates answer
LlmReturn(r, outcomes) ==
  LET rec == requests[r]
  IN /\ rec.pc = "llm"
     /\ \E outcome \in outcomes :
          LET res == getEnhancedAIResponse(outcome)
              aiResponse == res.value
              got == [rec EXCEPT !.failed = IF outcome.threw THEN @ \cup {"llm"} ELSE @]
              next == IF res.threw THEN Aborted(rec)
                      ELSE IF aiResponse = <<>> THEN FallbackFinished(got)
                      ELSE IF rec.knowledgeBase = <<>> THEN AiFinished(got, aiResponse)
                      ELSE [got EXCEPT !.pc = "usage", !.index = 1,
                                       !.response = AiFinished(got, aiResponse).response]
          IN /\ requests' = [requests EXCEPT ![r] = next]
             /\ conversationMemory' =
                  IF res.threw \/ aiResponse = <<>> THEN conversationMemory
                  ELSE rememberReply(conversationMemory, rec.user, aiResponse)
             /\ Account(r, next)
     /\ UNCHANGED <<apiKey, usageCount, received>>
     /\ UNCHANGED siteVars

\* lines 1214-1221: one usage update returns (done, or thrown and logged)
UsageReturn(r, outcomes) ==
  LET rec == requests[r]
      kb == rec.knowledgeBase[rec.index]
  IN /\ rec.pc = "usage"
     /\ \E threw \in outcomes :
          LET got == [rec EXCEPT !.failed = IF threw THEN @ \cup {"usage"} ELSE @]
              next == IF rec.index < Len(rec.knowledgeBase)
                      THEN [got EXCEPT !.index = @ + 1]
                      ELSE Finished(got, rec.response)
          IN /\ requests' = [requests EXCEPT ![r] = next]
             /\ usageCount' = IF threw THEN usageCount
                              ELSE [usageCount EXCEPT ![kb] = @ + 1]
             /\ Account(r, next)
     /\ UNCHANGED <<apiKey, conversationMemory, received>>
     /\ UNCHANGED siteVars

----------------------------------------------------------------------------
(* Turns one after another, every collaborator free to fail *)

\* the callers of the sequential handler: one authenticated user, and a
\* request without a session
Callers == {"u1", NoUser}

Next ==
  \/ \E r \in {"r1"} :
       \/ Receive(r, Callers, Bodies, MaxRequests, TRUE)
       \/ JsonReturn(r)
       \/ DbReturn(r, DbOutcomes)
       \/ KbReturn(r, KbOutcomes)
       \/ WebReturn(r, WebOutcomes)
       \/ ProactiveReturn(r, WebOutcomes)
       \/ LlmReturn(r, LlmOutcomes)
       \/ UsageReturn(r, BOOLEAN)

Spec == Init /\ [][Next]_vars

----------------------------------------------------------------------------
(* Requests of two users in flight together; the searches find nothing *)

\* the number of requests one behaviour of SpecConcurrent receives
MaxConcurrentRequests == 3

ConcurrentBodies ==
  {[ok |-> FALSE, message |-> <<>>]} \cup
  {[ok |-> TRUE, message |-> m] :
     m \in {<<>>, <<"honda">>, <<"give", "me", "tips">>}}

FailedSearch == {[threw |-> TRUE, parts |-> <<>>, entries |-> <<>>, scraped |-> <<>>]}

\* the callers of the concurrent handler: both users, and a request without
\* a session
ConcurrentCallers == Users \cup {NoUser}

NextConcurrent ==
  \E r \in Req :
    \/ Receive(r, ConcurrentCallers, ConcurrentBodies, MaxConcurrentRequests, FALSE)
    \/ JsonReturn(r)
    \/ DbReturn(r, FailedSearch)
    \/ KbReturn(r, FailedSearch)
    \/ WebReturn(r, FailedSearch)
    \/ LlmReturn(r, LlmOutcomes)

SpecConcurrent == Init /\ [][NextConcurrent]_vars

----------------------------------------------------------------------------
(* One user's conversation growing past the context window *)

\* the number of requests one behaviour of SpecLong receives
MaxLongRequests == 6

LongBodies == {[ok |-> TRUE, message |-> <<"honda">>]}

LongReplies == {o \in LlmOutcomes : o.content # <<"try", "a", "Toyota", "pad">>}

NextLong ==
  \E r \in Req :
    \/ Receive(r, {"u1"}, LongBodies, MaxLongRequests, FALSE)
    \/ JsonReturn(r)
    \/ DbReturn(r, FailedSearch)
    \/ KbReturn(r, FailedSearch)
    \/ LlmReturn(r, LongReplies)

SpecLong == Init /\ [][NextLong]_vars

----------------------------------------------------------------------------
(* One user's conversation over the scenario messages; the searches answer *)

\* the number of requests one behaviour of SpecScenarios receives
MaxScenarioRequests == 2

TensionerMessage ==
  <<"My", "1980", "CB750", "needs", "a", "new", "cam", "chain", "tensioner">>

CivicMessage == <<"I", "have", "a", "2015", "Honda", "Civic">>

TipsMessage == <<"give", "me", "tips">>

ScenarioMessages ==
  { TensionerMessage, CivicMessage, TipsMessage,
    <<"check", "the", "honda", "manual">>,
    <<"My", "1980", "CB750", "needs", "a", "new", "chain">>,
    <<"expert", "tips", "for", "a", "beginner">>,
    <<"1975", "CB750", "and", "1980", "CB750", "and", "2035", "Civic">>,
    <<"my", "bmw", "m3">> }

ScenarioBodies == {[ok |-> TRUE, message |-> m] : m \in ScenarioMessages}

\* every search returns, the database and the knowledge base without a match
QuietSearch == {[threw |-> FALSE, parts |-> <<>>, entries |-> <<>>, scraped |-> <<>>]}

NextScenarios ==
  \E r \in {"r1"} :
    \/ Receive(r, {"u1"}, ScenarioBodies, MaxScenarioRequests, TRUE)
    \/ JsonReturn(r)
    \/ DbReturn(r, QuietSearch)
    \/ KbReturn(r, QuietSearch)
    \/ WebReturn(r, QuietSearch)
    \/ ProactiveReturn(r, QuietSearch)
    \/ LlmReturn(r, LlmOutcomes)

SpecScenarios == Init /\ [][NextScenarios]_vars

----------------------------------------------------------------------------
(* Two valid requests in flight together, of one user or of two *)

\* the number of requests one behaviour of SpecRace receives
MaxRaceRequests == 2

RaceBodies == {[ok |-> TRUE, message |-> m] : m \in {<<"honda">>, TipsMessage}}

NextRace ==
  \E r \in Req :
    \/ Receive(r, Users, RaceBodies, MaxRaceRequests, FALSE)
    \/ JsonReturn(r)
    \/ DbReturn(r, FailedSearch)
    \/ KbReturn(r, FailedSearch)
    \/ WebReturn(r, FailedSearch)
    \/ LlmReturn(r, LlmOutcomes)

SpecRace == Init /\ [][NextRace]_vars

----------------------------------------------------------------------------
(* The relevance scorer called on its own *)

ScoringResults ==
  { BraveResult(<<"forum", "thread">>, <<"general", "discussion">>, "forum"),
    BraveResult(<<"brake", "pad">>, <<"parts">>, "amazon"),
    BraveResult(<<"Honda", "Civic", "brake", "pad", "set">>, <<"eBay", "listing:">>, "ebay"),
    [BraveResult(<<"Honda", "Civic", "brake", "pad", "set">>, <<"eBay", "listing:">>, "ebay")
       EXCEPT !.price = TRUE],
    EbayResult(<<"Toyota", "brake", "pad">>, TRUE),
    RockAutoResult(<<"brake", "pad">>),
    [RockAutoResult(<<"brake", "pad">>) EXCEPT !.timestamp = <<2>>],
    [BraveResult(<<"forum", "thread">>, <<"general", "discussion">>, "forum")
       EXCEPT !.timestamp = <<30>>] }

\* "brake  pad" and "tips " are written with two spaces and a trailing space
ScoringQueries ==
  { <<"brake", "pad">>, <<"brake", "", "pad">>, <<"tips", "">>,
    <<"Honda", "Civic", "brake", "pad", "set">>, <<"toyota">> }

ScoringPreferences ==
  { [EmptyPreferences EXCEPT !.vehicleMake = mm[1], !.vehicleModel = mm[2]] :
      mm \in {<<"", "">>, <<"honda", "civic">>, <<"toyota", "">>, <<"", "cb750">>} }

\* a call that has not returned yet has the score -1
ScoringCalls ==
  [result : ScoringResults, userQuery : ScoringQueries,
   userPreferences : ScoringPreferences, score : {-1}]

InitScoring ==
  /\ InitChat
  /\ InitRoutes
  /\ scoring \in {<<call>> : call \in ScoringCalls}

\* scoreResultRelevance(result, userQuery, userPreferences) returns
ScoreResult ==
  /\ scoring # <<>>
  /\ scoring[1].score = -1
  /\ scoring' = <<[scoring[1] EXCEPT !.score =
                     scoreResultRelevance(scoring[1].result, scoring[1].userQuery,
                                          scoring[1].userPreferences)]>>
  /\ UNCHANGED <<chatVars, crawlVars, post, voteRequests, voteResponse, lastVote,
               knowledge, feedbackRequests, feedbackReceived>>

SpecScoring == InitScoring /\ [][ScoreResult]_vars

----------------------------------------------------------------------------
(* Site crawler: the start route, processCrawlQueue and the control route *)

\* the bodies of a start request, maxPages and maxDepth given or defaulted
CrawlConfigs ==
  { [baseUrl |-> "", maxPages |-> 10, maxDepth |-> 2, onlyDomain |-> TRUE],
    [baseUrl |-> "p0", maxPages |-> 1, maxDepth |-> 2, onlyDomain |-> TRUE],
    [baseUrl |-> "p0", maxPages |-> 2, maxDepth |-> 1, onlyDomain |-> FALSE],
    [baseUrl |-> "p0", maxPages |-> 3, maxDepth |-> 2, onlyDomain |-> TRUE] }

\* NextResponse.json(..., { status }) of a crawl request
Answered(action, status) == Append(crawlLog, [action |-> action, status |-> status])

\* the start route up to its await of request.json(): 409 while a crawl is
\* active
StartCheck ==
  /\ crawlRequests < MaxCrawlRequests
  /\ crawlRequests' = crawlRequests + 1
  /\ IF crawlState.isActive
     THEN /\ crawlLog' = Answered("start", 409)
          /\ UNCHANGED starting
     ELSE /\ starting' = starting + 1
          /\ UNCHANGED crawlLog
  /\ UNCHANGED <<crawlState, crawlers, chatVars, scoring,
               post, voteRequests, voteResponse, lastVote,
               knowledge, feedbackRequests, feedbackReceived>>

\* the start route after request.json(): 400 without a base URL; else the
\* crawl state is replaced and processCrawlQueue is scheduled
StartInit(configs) ==
  /\ starting > 0
  /\ starting' = starting - 1
  /\ \E config \in configs :
       IF config.baseUrl = ""
       THEN /\ crawlLog' = Answered("start", 400)
            /\ UNCHANGED <<crawlState, crawlers>>
       ELSE /\ crawlLog' = Answered("start", 200)
            /\ crawlState' = StartedCrawlState(config)
            /\ LET free == CHOOSE c \in Crawlers : crawlers[c].pc = "none"
               IN crawlers' = [crawlers EXCEPT ![free] =
                                 [pc |-> "scheduled", url |-> "", depth |-> 0]]
  /\ UNCHANGED <<crawlRequests, chatVars, scoring,
               post, voteRequests, voteResponse, lastVote,
               knowledge, feedbackRequests, feedbackReceived>>

\* processCrawlQueue up to its first await
processCrawlQueue(c) ==
  /\ crawlers[c].pc = "scheduled"
  /\ IF ~crawlState.isActive \/ crawlState.urlQueue = <<>>
     THEN /\ crawlState' = Completed(crawlState)
          /\ crawlers' = [crawlers EXCEPT ![c] = NoCrawler]
     ELSE LET entry == Head(crawlState.urlQueue)
              shifted == [crawlState EXCEPT !.urlQueue = Tail(@)]
          IN IF \/ entry.url \in crawlState.processedUrls
                \/ entry.depth > crawlState.config.maxDepth
             THEN /\ crawlState' = shifted
                  /\ UNCHANGED crawlers
             ELSE /\ crawlState' =
                       [shifted EXCEPT !.processedUrls = @ \cup {entry.url},
                                       !.currentUrl = entry.url,
                                       !.processedCount = @ + 1,
                                       !.status = "Processing"]
                  /\ crawlers' = [crawlers EXCEPT ![c] =
                        [pc |-> "fetching", url |-> entry.url, depth |-> entry.depth]]
  /\ UNCHANGED <<starting, crawlRequests, crawlLog, chatVars, scoring,
               post, voteRequests, voteResponse, lastVote,
               knowledge, feedbackRequests, feedbackReceived>>

\* the awaits of a step are over: the entry is counted, the links are queued,
\* and the next step is scheduled or the crawl is completed
FetchReturn(c, outcomes) ==
  /\ crawlers[c].pc = "fetching"
  /\ \E outcome \in outcomes :
       LET after == afterFetch(crawlState, crawlers[c].url, crawlers[c].depth, outcome)
       IN IF continues(after)
          THEN /\ crawlState' = after
               /\ crawlers' = [crawlers EXCEPT ![c] =
                                 [pc |-> "scheduled", url |-> "", depth |-> 0]]
          ELSE /\ crawlState' = Completed(after)
               /\ crawlers' = [crawlers EXCEPT ![c] = NoCrawler]
  /\ UNCHANGED <<starting, crawlRequests, crawlLog, chatVars, scoring,
               post, voteRequests, voteResponse, lastVote,
               knowledge, feedbackRequests, feedbackReceived>>

\* the control route: stop, pause, resume; any other action: 400
Control ==
  /\ crawlRequests < MaxCrawlRequests
  /\ crawlRequests' = crawlRequests + 1
  /\ \E action \in {"stop", "pause", "resume", "restart"} :
       CASE action = "stop" ->
              /\ crawlState' = [crawlState EXCEPT !.isActive = FALSE,
                                                  !.status = "Stopped by user",
                                                  !.urlQueue = <<>>]
              /\ crawlLog' = Answered(action, 200)
         [] action = "pause" ->
              IF crawlState.isActive
              THEN /\ crawlState' = [crawlState EXCEPT !.isActive = FALSE,
                                                       !.status = "Paused by user"]
                   /\ crawlLog' = Answered(action, 200)
              ELSE /\ crawlLog' = Answered(action, 400)
                   /\ UNCHANGED crawlState
         [] action = "resume" ->
              IF ~crawlState.isActive /\ crawlState.urlQueue # <<>>
              THEN /\ crawlState' = [crawlState EXCEPT !.isActive = TRUE,
                                                       !.status = "Resumed by user"]
                   /\ crawlLog' = Answered(action, 200)
              ELSE /\ crawlLog' = Answered(action, 400)
                   /\ UNCHANGED crawlState
         [] OTHER ->
              /\ crawlLog' = Answered(action, 400)
              /\ UNCHANGED crawlState
  /\ UNCHANGED <<crawlers, starting, chatVars, scoring,
               post, voteRequests, voteResponse, lastVote,
               knowledge, feedbackRequests, feedbackReceived>>

NextCrawl ==
  \/ StartCheck
  \/ StartInit(CrawlConfigs)
  \/ \E c \in Crawlers : processCrawlQueue(c)
  \/ \E c \in Crawlers : FetchReturn(c, FetchOutcomes)
  \/ Control

\* the state the site's routes start from, the chat handler idle
InitSite == Init /\ apiKey

SpecCrawl == InitSite /\ [][NextCrawl]_vars

\* the scheduled callbacks run, every fetch returns or times out, and the
\* body of a start request arrives
CrawlFairness ==
  /\ \A c \in Crawlers : WF_vars(processCrawlQueue(c))
  /\ \A c \in Crawlers : WF_vars(FetchReturn(c, FetchOutcomes))
  /\ WF_vars(StartInit(CrawlConfigs))

SpecCrawlFair == InitSite /\ [][NextCrawl]_vars /\ CrawlFairness

\* crawls that are started and never paused or stopped
NextCrawlRun ==
  \/ StartCheck
  \/ StartInit(CrawlConfigs)
  \/ \E c \in Crawlers : processCrawlQueue(c)
  \/ \E c \in Crawlers : FetchReturn(c, FetchOutcomes)

SpecCrawlRun == InitSite /\ [][NextCrawlRun]_vars /\ CrawlFairness

----------------------------------------------------------------------------
(* Post votes: the vote route, one request after another *)

\* the number of vote requests of one behaviour
MaxVoteRequests == 4

\* the vote route from the request to its response, for an authenticated or
\* anonymous user, a valid or invalid type, an existing or missing post; save()
\* stores the document or throws (500)
Vote ==
  /\ voteRequests < MaxVoteRequests
  /\ voteRequests' = voteRequests + 1
  /\ \E user \in Voters \cup {"none"}, type \in ValidTypes \cup {"sideways"},
        id \in {"post1", "missing"}, saved \in BOOLEAN :
       LET status == voteStatus(user, type, id = "post1")
           answered == [user |-> user, id |-> id, type |-> type, status |-> status]
       IN IF status # 0
          THEN /\ voteResponse' = answered
               /\ UNCHANGED <<post, lastVote>>
          ELSE IF saved
          THEN /\ post' = castVote(post, user, type)
               /\ voteResponse' = [answered EXCEPT !.status = 200]
               /\ lastVote' = [lastVote EXCEPT ![user] = type]
          ELSE /\ voteResponse' = [answered EXCEPT !.status = 500]
               /\ UNCHANGED <<post, lastVote>>
  /\ UNCHANGED <<chatVars, scoring, crawlVars, knowledge, feedbackRequests, feedbackReceived>>

SpecVotes == InitSite /\ [][Vote]_vars

----------------------------------------------------------------------------
(* Knowledge feedback: the feedback route, requests interleaving at the awaits *)

\* the number of feedback requests of one behaviour
MaxFeedbackRequests == 3

FeedbackDone(rec, status) == [rec EXCEPT !.pc = "done", !.status = status]

\* lines 9-30: a request of one of two users or of an anonymous caller
\* arrives, its rating 4 or 5, or 0 for a body without a rating;
\* unauthenticated: 401; after the awaits of the connection and the body, an
\* invalid rating: 400; else findById starts
FeedbackReceive(r) ==
  /\ feedbackRequests[r].pc \in {"idle", "done"}
  /\ feedbackReceived < MaxFeedbackRequests
  /\ feedbackReceived' = feedbackReceived + 1
  /\ \E user \in {"u1", "u2", "none"}, rating \in {0, 4, 5} :
       LET rec == [IdleFeedback EXCEPT !.user = user, !.rating = rating]
       IN feedbackRequests' = [feedbackRequests EXCEPT ![r] =
            IF user = "none" THEN FeedbackDone(rec, 401)
            ELSE IF invalidRating(rating) THEN FeedbackDone(rec, 400)
            ELSE [rec EXCEPT !.pc = "find"]]
  /\ UNCHANGED <<knowledge, chatVars, scoring, crawlVars,
                  post, voteRequests, voteResponse, lastVote>>

\* lines 30-55: findById returns; no entry: 404; the user's feedback is in the
\* loaded document: 400; else addFeedback changes the document and saves it
FindReturn(r) ==
  LET rec == feedbackRequests[r]
  IN /\ rec.pc = "find"
     /\ \E outcome \in {"found", "missing", "threw"} :
          feedbackRequests' = [feedbackRequests EXCEPT ![r] =
            IF outcome = "threw" THEN FeedbackDone(rec, 500)
            ELSE IF outcome = "missing" THEN FeedbackDone(rec, 404)
            ELSE IF existingFeedback(knowledge, rec.user) THEN FeedbackDone(rec, 400)
            ELSE [rec EXCEPT !.pc = "save",
                             !.doc = addFeedback(knowledge, rec.user, rec.rating)]]
     /\ UNCHANGED <<knowledge, feedbackReceived, chatVars, scoring, crawlVars,
                  post, voteRequests, voteResponse, lastVote>>

\* lines 49-58: the save of addFeedback returns: the pushed item is appended
\* to the stored array and the computed score is stored; then incrementUsage
\* changes the document and saves it
FeedbackSaved(r) ==
  LET rec == feedbackRequests[r]
  IN /\ rec.pc = "save"
     /\ \E outcome \in {"saved", "threw"} :
          IF outcome = "threw"
          THEN /\ feedbackRequests' = [feedbackRequests EXCEPT ![r] = FeedbackDone(rec, 500)]
               /\ UNCHANGED knowledge
          ELSE /\ knowledge' = [knowledge EXCEPT
                    !.feedback = Append(@, [user |-> rec.user, rating |-> rec.rating]),
                    !.usefulness_score = rec.doc.usefulness_score]
               /\ feedbackRequests' = [feedbackRequests EXCEPT ![r] =
                    [rec EXCEPT !.pc = "usage", !.doc = incrementUsage(rec.doc)]]
     /\ UNCHANGED <<feedbackReceived, chatVars, scoring, crawlVars,
                  post, voteRequests, voteResponse, lastVote>>

\* lines 57-64: the save of incrementUsage returns: the count is stored; 200
UsageSaved(r) ==
  LET rec == feedbackRequests[r]
  IN /\ rec.pc = "usage"
     /\ \E outcome \in {"saved", "threw"} :
          IF outcome = "threw"
          THEN /\ feedbackRequests' = [feedbackRequests EXCEPT ![r] = FeedbackDone(rec, 500)]
               /\ UNCHANGED knowledge
          ELSE /\ knowledge' = [knowledge EXCEPT !.usage_count = rec.doc.usage_count]
               /\ feedbackRequests' = [feedbackRequests EXCEPT ![r] = FeedbackDone(rec, 200)]
     /\ UNCHANGED <<feedbackReceived, chatVars, scoring, crawlVars,
                  post, voteRequests, voteResponse, lastVote>>

NextFeedback ==
  \E r \in FeedbackReq :
    \/ FeedbackReceive(r)
    \/ FindReturn(r)
    \/ FeedbackSaved(r)
    \/ UsageSaved(r)

SpecFeedback == InitSite /\ [][NextFeedback]_vars

----------------------------------------------------------------------------
(* Properties *)

MessagesOf(u) ==
  IF u \in DOMAIN conversationMemory THEN conversationMemory[u].messages ELSE <<>>

Validated(rec) == rec.user # NoUser /\ rec.body.ok /\ rec.body.message # <<>>

AboveThresholdSortedCapped(list) ==
  /\ \A i \in 1..Len(list) : list[i].relevanceScore > MinRelevance
  /\ \A i \in 1..(Len(list) - 1) : list[i].relevanceScore >= list[i + 1].relevanceScore
  /\ Len(list) <= TopResults

\* C1: in every turn the filtered web results all score above the threshold
\* 15, are in non-increasing order of score, and are at most 8; so is the
\* webResults list of every response.
C1_FilteredResults ==
  \A r \in Req :
    /\ AboveThresholdSortedCapped(requests[r].filteredResults)
    /\ AboveThresholdSortedCapped(requests[r].response.webResults)

\* a pool of direct and proactive results with more than 8 above the threshold
\* and some at or below it, filtered to 8 results of different scores
C1_Witness ==
  \E r \in Req :
    LET rec == requests[r]
        pool == rec.webResults \o rec.proactiveResults
        score(i) == scoreResultRelevance(pool[i], rec.body.message,
                                         conversationMemory[rec.user].userPreferences)
    IN /\ rec.pc = "llm"
       /\ Cardinality({i \in 1..Len(pool) : score(i) > MinRelevance}) > TopResults
       /\ \E i \in 1..Len(pool) : score(i) <= MinRelevance
       /\ Len(rec.filteredResults) = TopResults
       /\ rec.filteredResults[1].relevanceScore
            > rec.filteredResults[TopResults].relevanceScore

ShortUnspecific(message) ==
  /\ message # <<>>
  /\ length(message) < VagueLen
  /\ ~\E p \in SpecificParts : includesPhrase(toLowerCase(message), p)

\* C2: a turn whose message is shorter than 10 characters and names no
\* specific part is classified vague and issues no web search, direct or
\* proactive, whatever the user's conversation context.
C2_ShortMessageNoWebSearch ==
  \A r \in Req :
    Validated(requests[r]) /\ ShortUnspecific(requests[r].body.message)
      => isVague(requests[r].body.message) /\ requests[r].calls = <<>>

\* a short message answered without a web search for a user whose record
\* holds a vehicle make from an earlier turn
C2_Witness ==
  \E r \in Req :
    LET rec == requests[r]
    IN /\ rec.pc = "done" /\ rec.response.status = 200
       /\ ShortUnspecific(rec.body.message)
       /\ rec.calls = <<>>
       /\ Len(conversationMemory[rec.user].messages) >= 3
       /\ hasConversationContext(conversationMemory[rec.user])
       /\ shouldSearchWebIgnoringVague(rec.body.message, conversationMemory[rec.user])

RECURSIVE MostRecentMake(_)
\* the recognized make mentioned last in a text, "" when there is none
MostRecentMake(text) ==
  IF text = <<>> THEN ""
  ELSE IF Lower(text[Len(text)]) \in Makes THEN Lower(text[Len(text)])
       ELSE MostRecentMake(SubSeq(text, 1, Len(text) - 1))

\* the stored messages up to the last entry of the user
UpToLastUser(messages) ==
  LET mine == {i \in 1..Len(messages) : messages[i].role = "user"}
  IN IF mine = {} THEN <<>>
     ELSE SubSeq(messages, 1, CHOOSE i \in mine : \A j \in mine : j <= i)

\* C3 as stated: after each turn the stored vehicleMake is the recognized make
\* mentioned last in the accumulated history.
C3_MakeIsLastMentioned ==
  \A u \in DOMAIN conversationMemory :
    InTurn(u) = {} =>
      conversationMemory[u].userPreferences.vehicleMake
        = MostRecentMake(JoinContents(conversationMemory[u].messages))

\* C3, amended: the stored vehicleMake is always the recognized make mentioned
\* last in the stored messages up to the user's last entry (the entries of
\* the assistant before it included), and once set it is never empty again.
C3_MakeFollowsUserTurns ==
  /\ [](\A u \in DOMAIN conversationMemory :
          conversationMemory[u].userPreferences.vehicleMake
            = MostRecentMake(JoinContents(UpToLastUser(conversationMemory[u].messages))))
  /\ [][\A u \in DOMAIN conversationMemory :
          conversationMemory[u].userPreferences.vehicleMake # ""
            => conversationMemory'[u].userPreferences.vehicleMake # ""]_vars

\* a user who named one make and later another: the later one is stored
C3_Witness ==
  \E u \in DOMAIN conversationMemory :
    LET messages == conversationMemory[u].messages
    IN /\ Len(messages) >= 2
       /\ messages[1].role = "user" /\ messages[Len(messages)].role = "user"
       /\ MostRecentMake(messages[1].content) = "honda"
       /\ MostRecentMake(messages[Len(messages)].content) = "toyota"
       /\ conversationMemory[u].userPreferences.vehicleMake = "toyota"

Alternating(messages) ==
  \A i \in 1..Len(messages) :
    messages[i].role = IF i % 2 = 1 THEN "user" ELSE "assistant"

\* C4: a user whose turns ran one after another, each answered by the LLM,
\* has after N turns exactly 2N stored messages, alternately of the user and
\* of the assistant.
C4_TwoEntriesPerTurn ==
  \A u \in Users :
    (/\ InTurn(u) = {}
     /\ ~history[u].overlapped
     /\ history[u].llmDone = history[u].turnsDone)
      => /\ Len(MessagesOf(u)) = 2 * history[u].turnsDone
         /\ Alternating(MessagesOf(u))

\* two turns of one user, one after the other, both answered by the LLM
C4_Witness ==
  \E u \in Users :
    /\ InTurn(u) = {} /\ ~history[u].overlapped
    /\ history[u].turnsDone = 2 /\ history[u].llmDone = 2
    /\ Len(MessagesOf(u)) = 4

\* C5: every completed turn, answered by the LLM or by a fallback template,
\* has appended the assistant's reply to the user's stored messages.
C5_ReplyStoredAfterEveryTurn ==
  \A r \in Req :
    LET rec == requests[r]
    IN rec.pc = "done" /\ rec.response.status = 200
         => /\ MessagesOf(rec.user) # <<>>
            /\ MessagesOf(rec.user)[Len(MessagesOf(rec.user))].role = "assistant"

\* C6: a request without a verified user ends with 401, whatever its body; a
\* request of a user without a message ends with 400; and no step of either
\* changes the conversation memory.
C6_RejectedRequests ==
  /\ [](\A r \in Req :
          requests[r].pc = "done" =>
            /\ requests[r].user = NoUser => requests[r].response.status = 401
            /\ (requests[r].user # NoUser /\ requests[r].body.ok
                  /\ requests[r].body.message = <<>>)
                 => requests[r].response.status = 400)
  /\ [][\A r \in Req :
          (/\ requests'[r] # requests[r]
           /\ requests'[r].user = NoUser \/ requests'[r].body.message = <<>>)
            => conversationMemory' = conversationMemory]_vars

\* an unauthenticated request without a message answered 401 and a request
\* without a message answered 400, the memory holding an earlier conversation
C6_Witness ==
  \E r, q \in Req :
    /\ requests[r].pc = "done" /\ requests[r].user = NoUser
    /\ requests[r].body.ok /\ requests[r].body.message = <<>>
    /\ requests[r].response.status = 401
    /\ requests[q].pc = "done" /\ requests[q].user # NoUser
    /\ requests[q].response.status = 400
    /\ DOMAIN conversationMemory # {}

\* C7: an authenticated request with a message always ends with a success
\* response carrying a message, whichever collaborators failed; the results
\* of a failed search count as none, and a failed LLM call is answered by a
\* fallback template.
C7_CollaboratorFailuresAbsorbed ==
  \A r \in Req :
    LET rec == requests[r]
    IN Validated(rec) /\ rec.pc = "done" =>
         /\ rec.response.status = 200
         /\ rec.response.template \notin {"none", "error"}
         /\ "db" \in rec.failed => rec.response.sources.database = 0
         /\ "kb" \in rec.failed => rec.response.sources.knowledge = 0
         /\ "web" \in rec.failed /\ Len(rec.calls) = 1 => rec.response.sources.web = 0
         /\ "llm" \in rec.failed => rec.response.template # "ai"

\* a turn in which the database, the knowledge base, the direct and a
\* proactive web search and the LLM call all failed, answered with 200
C7_Witness ==
  \E r \in Req :
    /\ requests[r].pc = "done"
    /\ {"db", "kb", "web", "pro", "llm"} \subseteq requests[r].failed
    /\ requests[r].response.status = 200

\* C8: a user has a record exactly when one of their requests passed
\* authentication and carried a message, and records are never removed.
C8_RecordIffValidated ==
  /\ [](\A u \in Users : u \in DOMAIN conversationMemory <=> history[u].validated)
  /\ [][DOMAIN conversationMemory \subseteq DOMAIN conversationMemory']_vars

\* one user with a record, another whose only request was rejected with 400
C8_Witness ==
  \E u, v \in Users :
    /\ u \in DOMAIN conversationMemory
    /\ v \notin DOMAIN conversationMemory
    /\ \E r \in Req : requests[r].user = v /\ requests[r].response.status = 400

IsPrefix(s, t) == Len(s) <= Len(t) /\ SubSeq(t, 1, Len(s)) = s

\* C9: the stored messages only grow at the end, and the history handed to
\* the LLM call is the last 10 stored messages (all of them when there are
\* fewer).
C9_AppendOnlyWindowedView ==
  /\ [][\A u \in DOMAIN conversationMemory :
          /\ u \in DOMAIN conversationMemory'
          /\ IsPrefix(conversationMemory[u].messages, conversationMemory'[u].messages)]_vars
  /\ [][\A r \in Req :
          requests'[r].pc = "llm" /\ requests[r].pc # "llm" =>
            LET stored == conversationMemory'[requests'[r].user].messages
                view == requests'[r].view
            IN /\ Len(view) = Min(Len(stored), ContextWindow)
               /\ \A i \in 1..Len(view) :
                    view[i] = stored[Len(stored) - Len(view) + i]]_vars

\* an LLM call with more stored messages than the window holds
C9_Witness ==
  \E r \in Req :
    /\ requests[r].pc = "llm"
    /\ Len(requests[r].view) = ContextWindow
    /\ Len(conversationMemory[requests[r].user].messages) > ContextWindow

IsHonda(rec) == Validated(rec) /\ rec.body.message = <<"honda">>

\* C10 as stated: the turn of the message "honda" issues no web search and
\* is answered with the clarifying-question template and empty webResults and
\* knowledgeBase.
C10_HondaClarified ==
  \A r \in Req :
    LET rec == requests[r]
    IN IsHonda(rec) =>
         /\ rec.calls = <<>>
         /\ rec.pc = "done" =>
              /\ rec.response.template = "clarify"
              /\ rec.response.webResults = <<>>
              /\ rec.response.knowledgeBase = <<>>

\* C10, amended: the turn of the message "honda" issues no web search and its
\* response has no webResults; answered from the fallback templates it is the
\* clarifying question with an empty knowledgeBase; answered by the LLM it
\* carries the LLM's text and the entries the knowledge search returned.
C10_HondaNoSearch ==
  \A r \in Req :
    LET rec == requests[r]
    IN IsHonda(rec) =>
         /\ rec.calls = <<>>
         /\ rec.pc = "done" =>
              /\ rec.response.status = 200
              /\ rec.response.webResults = <<>>
              /\ rec.response.template \in {"ai", "clarify"}
              /\ rec.response.template = "clarify" => rec.response.knowledgeBase = <<>>
              /\ rec.response.template = "ai" =>
                   /\ rec.response.text # <<>>
                   /\ Len(rec.response.knowledgeBase) = rec.response.sources.knowledge

\* "honda" answered by the clarifying template although the knowledge search
\* had found an entry
C10_Witness ==
  \E r \in Req :
    /\ IsHonda(requests[r]) /\ requests[r].pc = "done"
    /\ requests[r].response.template = "clarify"
    /\ requests[r].response.sources.knowledge > 0
    /\ requests[r].response.knowledgeBase = <<>>

FirstTurnOf(rec) ==
  /\ Validated(rec) /\ rec.pc \notin {"idle", "json"}
  /\ Len(conversationMemory[rec.user].searchHistory) = 1

\* C11: the first message "My 1980 CB750 needs a new cam chain tensioner" is
\* specific and not vague; its turn issues the direct web search and the
\* proactive searches; the user's preferences then have no vehicleMake and
\* vehicleYear 1980.
C11_TensionerScenario ==
  \A r \in Req :
    LET rec == requests[r]
        preferences == conversationMemory[rec.user].userPreferences
    IN FirstTurnOf(rec) /\ rec.body.message = TensionerMessage =>
         /\ isSpecific(rec.body.message) /\ ~isVague(rec.body.message)
         /\ preferences.vehicleMake = "" /\ preferences.vehicleYear = 1980
         /\ rec.pc \notin {"db", "kb"} => rec.calls # <<>> /\ rec.calls[1] = TensionerMessage
         /\ rec.pc \in {"llm", "usage", "done"} =>
              rec.calls = << TensionerMessage,
                             <<"chain", "installation", "guide">>,
                             <<"chain", "troubleshooting">> >>

\* the turn of that first message answered, a reply that names a make stored
C11_Witness ==
  \E r \in Req :
    LET rec == requests[r]
    IN /\ FirstTurnOf(rec) /\ rec.body.message = TensionerMessage
       /\ rec.pc = "done" /\ rec.response.status = 200
       /\ Len(rec.calls) = 3
       /\ Len(conversationMemory[rec.user].messages) = 2
       /\ MostRecentMake(JoinContents(conversationMemory[rec.user].messages)) = "toyota"
       /\ conversationMemory[rec.user].userPreferences.vehicleYear = 1980

\* the turn of "give me tips" that follows the turn of "I have a 2015 Honda Civic"
TipsAfterCivic(rec) ==
  /\ Validated(rec) /\ rec.pc \notin {"idle", "json"}
  /\ rec.body.message = TipsMessage
  /\ conversationMemory[rec.user].searchHistory = <<CivicMessage, TipsMessage>>

\* C12: "give me tips" sent right after "I have a 2015 Honda Civic" is not
\* vague; the make of the first turn is in the preferences, the web search is
\* issued, and the answer is not the clarifying-question template; so it is
\* whether the first turn stored a reply of the assistant or not.
C12_FollowUpAfterVehicle ==
  \A r \in Req :
    LET rec == requests[r]
        userMemory == conversationMemory[rec.user]
    IN TipsAfterCivic(rec) =>
         /\ ~isVague(rec.body.message)
         /\ userMemory.userPreferences.vehicleMake # ""
         /\ userMemory.userPreferences.vehicleModel = "civic"
         /\ rec.pc \notin {"db", "kb"} => rec.calls # <<>> /\ rec.calls[1] = TipsMessage
         /\ rec.pc = "done" =>
              /\ rec.response.status = 200
              /\ rec.response.template \in {"ai", "tips"}

\* the second turn answered from the templates, the first turn having stored
\* no reply: the stored messages are the two of the user
C12_Witness ==
  \E r \in Req :
    LET rec == requests[r]
    IN /\ TipsAfterCivic(rec) /\ rec.pc = "done"
       /\ Len(conversationMemory[rec.user].messages) = 2
       /\ ~isFollowUpQuestion(rec.body.message, conversationMemory[rec.user])
       /\ rec.calls # <<>>
       /\ rec.response.template = "tips"

Count(s, x) == Cardinality({i \in 1..Len(s) : s[i] = x})

\* C13: every turn that passed authentication and validation issues the
\* database search and then the knowledge-base search, each exactly once, the
\* first right after the user's message was appended to the memory and both
\* before the classifier decides about the web search, for vague and for
\* specific messages alike; a rejected request issues neither.
C13_SearchesOncePerTurn ==
  /\ [](\A r \in Req :
          LET rec == requests[r]
          IN /\ ~Validated(rec) \/ rec.pc \in {"idle", "json"} => rec.issued = <<>>
             /\ Validated(rec) /\ rec.pc \notin {"idle", "json"} =>
                  /\ Count(rec.issued, "db") = 1 /\ rec.issued[1] = "db"
                  /\ rec.pc = "db" => rec.issued = <<"db">>
                  /\ rec.pc # "db" =>
                       /\ Count(rec.issued, "kb") = 1 /\ rec.issued[2] = "kb"
                       /\ \A i \in 3..Len(rec.issued) : rec.issued[i] \in {"web", "llm"}
                  /\ rec.pc \in {"db", "kb"} =>
                       /\ rec.calls = <<>>
                       /\ rec.response = NoResponse
                  /\ Count(rec.issued, "web") = Len(rec.calls))
  /\ [][\A r \in Req :
          requests[r].issued = <<>> /\ requests'[r].issued # <<>> =>
            LET stored == conversationMemory'[requests'[r].user].messages
            IN /\ stored = Append(MessagesOf(requests[r].user),
                                  [role |-> "user", content |-> requests[r].body.message])
               /\ requests'[r].issued = <<"db">>]_vars

\* a vague message answered after both searches ran (and failed), in a
\* conversation that also holds a specific message
C13_Witness ==
  \E r \in Req :
    LET rec == requests[r]
    IN /\ rec.pc = "done" /\ rec.response.status = 200
       /\ isVague(rec.body.message)
       /\ rec.issued = <<"db", "kb">>
       /\ {"db", "kb"} \subseteq rec.failed
       /\ \E i \in 1..Len(MessagesOf(rec.user)) :
            isSpecific(MessagesOf(rec.user)[i].content)

\* C14: a message that is neither vague nor specific, sent by a user who had
\* no vehicle preference and no search history before the turn (here: no
\* record at all), causes no web search in that turn.
C14_NoSearchWithoutContext ==
  \A r \in Req :
    LET rec == requests[r]
    IN (/\ FirstTurnOf(rec)
        /\ ~isVague(rec.body.message)
        /\ ~isSpecific(rec.body.message))
         => rec.calls = <<>>

\* C15: a step of a request of one user leaves the record of every other
\* user (messages, userPreferences, searchHistory, lastActive) as it was,
\* under every interleaving of the requests.
C15_OtherUsersUntouched ==
  [][\A r \in Req :
       requests'[r] # requests[r] =>
         \A b \in DOMAIN conversationMemory :
           b # requests'[r].user =>
             /\ b \in DOMAIN conversationMemory'
             /\ conversationMemory'[b] = conversationMemory[b]]_vars

\* turns of two users in flight together, both records written, one turn
\* already at its LLM call
C15_Witness ==
  \E u, v \in DOMAIN conversationMemory :
    /\ u # v
    /\ InTurn(u) # {} /\ InTurn(v) # {}
    /\ conversationMemory[u].messages # <<>> /\ conversationMemory[v].messages # <<>>
    /\ \E r \in InTurn(u) : requests[r].pc = "llm"

UserEntry(message) == [role |-> "user", content |-> message]

\* C16: two turns of one user that both await the LLM have both stored their
\* user message and neither its reply: the last stored entry is the question
\* of one of them, the question of the other is before it, the LLM history
\* of the turn that stored last holds both questions, and the preferences
\* are derived from both; the reply that one of them then stores follows
\* whatever question was stored last.
C16_TurnsNotSerialized ==
  /\ [](\A r, q \in Req :
          LET stored == MessagesOf(requests[r].user)
              n == Len(stored)
          IN (/\ r # q /\ requests[r].user = requests[q].user
              /\ requests[r].pc = "llm" /\ requests[q].pc = "llm") =>
               /\ n >= 2
               /\ \E x, y \in {requests[r], requests[q]} :
                    /\ x # y \/ requests[r] = requests[q]
                    /\ stored[n] = UserEntry(x.body.message)
                    /\ \E i \in 1..(n - 1) : stored[i] = UserEntry(y.body.message)
                    /\ x.view = sliceLast(stored, ContextWindow)
                    /\ \E i \in 1..(Len(x.view) - 1) : x.view[i] = UserEntry(y.body.message)
               /\ conversationMemory[requests[r].user].userPreferences.vehicleMake
                    = MostRecentMake(JoinContents(stored)))
  /\ [][\A r, q \in Req :
          (/\ r # q /\ requests[r].user = requests[q].user
           /\ requests[r].pc = "llm" /\ requests[q].pc = "llm"
           /\ requests'[r].pc = "done" /\ requests'[r].response.template = "ai")
            => LET stored == conversationMemory[requests[r].user].messages
               IN /\ conversationMemory'[requests[r].user].messages =
                       Append(stored, [role |-> "assistant",
                                       content |-> requests'[r].response.text])
                  /\ stored[Len(stored)].role = "user"]_vars

\* both questions stored before either reply: user, user, assistant, assistant
C16_Witness ==
  \E u \in DOMAIN conversationMemory :
    LET stored == conversationMemory[u].messages
    IN /\ Len(stored) = 4
       /\ stored[1].role = "user" /\ stored[2].role = "user"
       /\ stored[3].role = "assistant" /\ stored[4].role = "assistant"
       /\ stored[1].content # stored[2].content
       /\ history[u].overlapped
       /\ InTurn(u) = {}

PartNouns == {"tensioner", "brake", "clutch", "chain", "gear", "oil", "filter", "spark", "tire"}

\* the planned queries are the first two the part rule generates
PartBased(planned) ==
  /\ Len(planned) = 2
  /\ Lower(planned[1][1]) \in PartNouns /\ planned[2][1] = planned[1][1]
  /\ includesPhrase(planned[1], <<"installation", "guide">>)
  /\ includesPhrase(planned[2], <<"troubleshooting">>)

\* the planned queries are the two the vehicle rule generates
VehicleBased(planned, preferences) ==
  planned = << <<preferences.vehicleMake, preferences.vehicleModel, "common", "problems">>,
               <<preferences.vehicleMake, preferences.vehicleModel, "maintenance", "schedule">> >>

\* C17: the planner hands a turn at most 2 queries: the first two part-based
\* ones when the part rule fires, whatever the vehicle rule adds after them,
\* else the two vehicle-based ones; a turn issues at most 3 web searches, the
\* direct one and then the planned ones in their order.
C17_AtMostTwoProactive ==
  \A r \in Req :
    LET rec == requests[r]
        planned == rec.proactiveSearches
    IN /\ Len(planned) <= ProactiveLimit
       /\ Len(rec.calls) <= 1 + ProactiveLimit
       /\ rec.response.sources.proactiveSearches <= ProactiveLimit
       /\ planned # <<>> =>
            /\ \/ PartBased(planned)
               \/ /\ VehicleBased(planned, conversationMemory[rec.user].userPreferences)
                  /\ FirstPart(rec.body.message) = <<>>
            /\ rec.pc # "pro" => rec.calls = <<rec.body.message>> \o planned
            /\ rec.pc = "pro" =>
                 rec.calls = <<rec.body.message>> \o SubSeq(planned, 1, rec.index)

\* a message naming a part from a user whose make and model are known: five
\* queries generated, the two part-based ones planned, three searches issued
C17_Witness ==
  \E r \in Req :
    LET rec == requests[r]
        preferences == conversationMemory[rec.user].userPreferences
    IN /\ rec.pc = "llm"
       /\ preferences.vehicleMake # "" /\ preferences.vehicleModel # ""
       /\ PartBased(rec.proactiveSearches)
       /\ Len(rec.calls) = 3

\* the message mentions one of the nine part nouns of the planner's pattern
MentionsPartNoun(message) == \E i \in 1..Len(message) : PartAt(message, i) # <<>>

\* C18: whenever the planner runs on a message that mentions one of the
\* nouns tensioner, brake, clutch, chain, gear, oil, filter, spark plug, tire,
\* it plans part-based queries, so a proactive search follows the direct one,
\* whether a make and a model are known or not.
C18_PartNounPlansQueries ==
  \A r \in Req :
    LET rec == requests[r]
    IN (/\ rec.pc \in {"pro", "llm", "usage", "done"}
        /\ rec.calls # <<>>
        /\ MentionsPartNoun(rec.body.message))
         => Len(rec.calls) >= 2

\* the text the last preference update of a user read
ExtractedText(u) == toLowerCase(JoinContents(UpToLastUser(MessagesOf(u))))

SaysBeginner(text) ==
  \/ includes(text, "beginner") \/ includesPhrase(text, <<"new", "to">>)
  \/ includesPhrase(text, <<"first", "time">>) \/ includesPhrase(text, <<"never", "done">>)

SaysExpert(text) ==
  \/ includes(text, "expert") \/ includes(text, "professional")
  \/ includes(text, "mechanic") \/ includesPhrase(text, <<"years", "of", "experience">>)

\* C19 as stated: when the conversation text holds a beginner phrase and an
\* expert phrase, the derived experienceLevel is expert.
C19_ExpertOverwritesBeginner ==
  \A u \in DOMAIN conversationMemory :
    SaysBeginner(ExtractedText(u)) /\ SaysExpert(ExtractedText(u))
      => conversationMemory[u].userPreferences.experienceLevel = "expert"

\* C19, amended: the beginner phrases are tested first and win: the derived
\* experienceLevel is beginner whenever a beginner phrase occurs, expert only
\* when an expert phrase and no beginner phrase occurs, else intermediate.
C19_BeginnerWins ==
  \A u \in DOMAIN conversationMemory :
    conversationMemory[u].userPreferences.experienceLevel =
      IF SaysBeginner(ExtractedText(u)) THEN "beginner"
      ELSE IF SaysExpert(ExtractedText(u)) THEN "expert"
      ELSE "intermediate"

\* a conversation with both an expert and a beginner phrase: beginner
C19_Witness ==
  \E u \in DOMAIN conversationMemory :
    /\ SaysBeginner(ExtractedText(u)) /\ SaysExpert(ExtractedText(u))
    /\ conversationMemory[u].userPreferences.experienceLevel = "beginner"

\* the years 1980..2029 written as a token of the text
YearsIn(text) ==
  {y \in 1980..2029 : \E i \in 1..Len(text) : IsDigits4(text[i]) /\ ParseIntTable[text[i]] = y}

LargestYear(text) ==
  IF YearsIn(text) = {} THEN 0
  ELSE CHOOSE y \in YearsIn(text) : \A z \in YearsIn(text) : z <= y

\* C20: the derived vehicleYear is the largest year of 1980..2029 in the
\* messages the last preference update read (0 when there is none); a year
\* outside 1980..2029 is never the vehicleYear; and over the turns of a user
\* vehicleYear never decreases.
C20_LargestYearKept ==
  /\ [](\A u \in DOMAIN conversationMemory :
          LET year == conversationMemory[u].userPreferences.vehicleYear
          IN /\ year = LargestYear(ExtractedText(u))
             /\ year = 0 \/ (year >= 1980 /\ year <= 2029))
  /\ [][\A u \in DOMAIN conversationMemory :
          conversationMemory'[u].userPreferences.vehicleYear
            >= conversationMemory[u].userPreferences.vehicleYear]_vars

\* a conversation that names 1975, 1980, 2015 and 2035, the smaller year
\* after the larger: vehicleYear is 2015
C20_Witness ==
  \E u \in DOMAIN conversationMemory :
    LET stored == conversationMemory[u].messages
    IN /\ \A t \in {"1975", "1980", "2035"} : includes(ExtractedText(u), t)
       /\ \E i, j \in 1..Len(stored) :
            /\ i < j
            /\ LargestYear(stored[i].content) = 2015
            /\ LargestYear(stored[j].content) = 1980
            /\ includes(stored[j].content, "2035")
       /\ conversationMemory[u].userPreferences.vehicleYear = 2015

\* the terms a split at whitespace gives: the non-empty pieces, lower-cased
WhitespaceSplit(userQuery) == SelectSeq(toLowerCase(userQuery), LAMBDA t : t # "")

ResultText(result) == toLowerCase(result.title \o result.description)

\* the bonus of the result's source: 10, 8, or 5 for the marketplace when a
\* price is present
SupplierBonus(result) ==
  CASE result.supplier = "RockAuto" -> 10
    [] result.supplier = "Amazon" -> 8
    [] result.supplier = "eBay" /\ result.price -> 5
    [] OTHER -> 0

\* C21: the score of every call is 10 times the number of whitespace-split
\* query terms found in title+description, plus 20 when the text contains the
\* known make, plus 15 when it contains the known model, plus the supplier
\* bonus, plus 5 when the timestamp is under 24 hours old; it is never
\* negative, and it is below 10 when no query term occurs in the text and no
\* other bonus applies.
C21_ScoreIsAdditive ==
  \A i \in 1..Len(scoring) :
    LET call == scoring[i]
        terms == WhitespaceSplit(call.userQuery)
        text == ResultText(call.result)
        found == {j \in 1..Len(terms) : includes(text, terms[j])}
        make == call.userPreferences.vehicleMake
        model == call.userPreferences.vehicleModel
    IN call.score # -1 =>
         /\ call.score =
              10 * Cardinality(found)
              + (IF make # "" /\ includes(text, Lower(make)) THEN 20 ELSE 0)
              + (IF model # "" /\ includes(text, Lower(model)) THEN 15 ELSE 0)
              + SupplierBonus(call.result)
              + (IF call.result.timestamp # NoTimestamp /\ call.result.timestamp[1] < 24
                 THEN 5 ELSE 0)
         /\ call.score >= 0

\* the turn was answered by a fallback template
AnsweredByFallback(rec) ==
  rec.pc = "done" /\ rec.response.status = 200 /\ rec.response.template # "ai"

\* C22: when the LLM is unavailable and the handler's classifier deemed the
\* message vague, the response is the clarifying-question template with empty
\* parts, knowledgeBase and webResults.
C22_VagueGetsClarification ==
  \A r \in Req :
    LET rec == requests[r]
    IN AnsweredByFallback(rec) /\ isVague(rec.body.message) =>
         /\ rec.response.template = "clarify"
         /\ rec.response.parts = <<>>
         /\ rec.response.knowledgeBase = <<>>
         /\ rec.response.webResults = <<>>

\* the processCrawlQueue chains that are scheduled or between their awaits
RunningCrawlers == {c \in Crawlers : crawlers[c].pc # "none"}

\* C23: at most one crawl runs at a time: whatever start, pause, resume and
\* stop requests arrive, there are never two processCrawlQueue chains
\* scheduled or in flight together, and a start request is accepted only when
\* none is.
C23_OneCrawlAtATime == Cardinality(RunningCrawlers) <= 1

\* the last two requests answered are an accepted pause and an accepted resume
PausedThenResumed ==
  /\ Len(crawlLog) >= 2
  /\ crawlLog[Len(crawlLog) - 1] = [action |-> "pause", status |-> 200]
  /\ crawlLog[Len(crawlLog)] = [action |-> "resume", status |-> 200]

\* C24: a crawl that was paused and then resumed while its queue was not
\* empty makes progress again: it does not stay active for ever with no step
\* scheduled, it comes to isActive = false (completed, or paused or stopped by
\* a later request).
C24_ResumedCrawlCompletes ==
  (PausedThenResumed /\ crawlState.isActive) ~> ~crawlState.isActive

\* a step of a crawl request (start or control), not of processCrawlQueue
CrawlRequestStep == crawlLog' # crawlLog \/ starting' # starting

\* C25: after a pause the status stays 'Paused by user', after a stop it
\* stays 'Stopped by user' with an empty queue, and savedEntries and
\* processedCount do not change, until the next request: no step of
\* processCrawlQueue changes any of them.
C25_PauseAndStopAreFinal ==
  [][(crawlState.status \in {"Paused by user", "Stopped by user"} /\ ~CrawlRequestStep)
       => /\ crawlState'.status = crawlState.status
          /\ crawlState'.savedEntries = crawlState.savedEntries
          /\ crawlState'.processedCount = crawlState.processedCount
          /\ crawlState.status = "Stopped by user" => crawlState'.urlQueue = <<>>]_vars

\* C26: once a crawl has been started, processedCount is the size of
\* processedUrls and at most maxPages, every queued entry has a depth of at
\* most maxDepth, and the queue holds at most maxPages entries.
C26_CrawlWithinLimits ==
  crawlState.config # NoConfig =>
    /\ crawlState.processedCount = Cardinality(crawlState.processedUrls)
    /\ crawlState.processedCount <= crawlState.config.maxPages
    /\ \A i \in 1..Len(crawlState.urlQueue) :
         crawlState.urlQueue[i].depth <= crawlState.config.maxDepth
    /\ Len(crawlState.urlQueue) <= crawlState.config.maxPages

\* C27: a started crawl that is neither paused nor stopped terminates: it
\* comes to isActive = false with status 'Completed', and at no time has it
\* fetched more than maxPages pages.
C27_CrawlTerminates ==
  /\ [](crawlState.config # NoConfig =>
          crawlState.processedCount <= crawlState.config.maxPages)
  /\ crawlState.isActive ~> (~crawlState.isActive /\ crawlState.status = "Completed")

\* the number of times x occurs in the sequence s
Occurrences(s, x) == Cardinality({i \in 1..Len(s) : s[i] = x})

\* where the post has user u: "up", "down", "both" or "remove" (in neither)
VoteOf(doc, u) ==
  CASE Occurrences(doc.upvotes, u) > 0 /\ Occurrences(doc.downvotes, u) > 0 -> "both"
    [] Occurrences(doc.upvotes, u) > 0 -> "up"
    [] Occurrences(doc.downvotes, u) > 0 -> "down"
    [] OTHER -> "remove"

\* C28: after any sequence of vote requests every user occurs at most once in
\* upvotes and downvotes together; the user's last stored vote determines
\* where they are ('remove', or no vote yet, in neither); repeating a vote
\* changes neither count; the other users' votes are unchanged by a request;
\* and a request that is not answered 200 (unauthenticated, invalid type,
\* missing post) changes nothing.
C28_OneVotePerUser ==
  /\ [](\A u \in Voters :
          /\ Occurrences(post.upvotes, u) + Occurrences(post.downvotes, u) <= 1
          /\ VoteOf(post, u) = IF lastVote[u] = "none" THEN "remove" ELSE lastVote[u])
  /\ [][/\ \A u \in Voters \ {voteResponse'.user} : VoteOf(post', u) = VoteOf(post, u)
        /\ voteResponse'.status # 200 => post' = post
        /\ (voteResponse'.status = 200 /\ voteResponse'.type = lastVote[voteResponse'.user])
             => /\ Len(post'.upvotes) = Len(post.upvotes)
                /\ Len(post'.downvotes) = Len(post.downvotes)]_vars

\* two users hold one vote each, a third has removed theirs, and a request for
\* a missing post has just been answered 404
C28_Witness ==
  /\ Len(post.upvotes) = 1 /\ Len(post.downvotes) = 1
  /\ lastVote["u1"] = "down" /\ post.upvotes = <<"u2">>
  /\ lastVote["u3"] = "remove"
  /\ voteResponse.status = 404

\* the feedback items of user u in the stored entry
FeedbackOf(u) == {i \in 1..Len(knowledge.feedback) : knowledge.feedback[i].user = u}

\* C29: the entry holds at most one feedback item per user, and of two
\* feedback requests of one user at most one is answered 200, also when the
\* two are processed concurrently.
C29_OneFeedbackPerUser ==
  /\ \A u \in {"u1", "u2"} : Cardinality(FeedbackOf(u)) <= 1
  /\ \A r, q \in FeedbackReq :
       (/\ r # q
        /\ feedbackRequests[r].user = feedbackRequests[q].user
        /\ feedbackRequests[r].status = 200) => feedbackRequests[q].status # 200

\* C30: in every successful chat response the source counts agree with the
\* payload: sources.web is the length of webResults, sources.knowledge the
\* length of knowledgeBase, sources.database the length of parts, on the LLM
\* path and on every fallback template.
C30_SourceCountsMatchPayload ==
  \A r \in Req :
    LET response == requests[r].response
    IN response.status = 200 =>
         /\ response.sources.web = Len(response.webResults)
         /\ response.sources.knowledge = Len(response.knowledgeBase)
         /\ response.sources.database = Len(response.parts)
====
